---- MODULE Spec2Model ----
(***************************************************************************)
(* A model of raybridge's vault key discovery (src/src/auth.ts):           *)
(* getWorkingOpenConfig with its probe worker pool, the transparent        *)
(* file-level decryptor, and runSqlcipherQuery's retry loop.               *)
(*                                                                         *)
(* Strings the engine prints are sequences of one-character strings.       *)
(* Key material and init statement sequences are small identifiers: the    *)
(* ciphers themselves are not modelled, only which (layout, key) or        *)
(* (init, key) combination opens the vault.                                *)
(*                                                                         *)
(* Further parts: the key candidates, the loaders and what they print,     *)
(* the rows and payloads of auth-normalize.ts, the vault files of a        *)
(* directory, the cached backend versions with their copy lock, and the    *)
(* probe log.                                                              *)
(***************************************************************************)
EXTENDS Integers, Sequences, FiniteSets, TLC

\* ------------------------------------------------------------------ bounds
\* Largest number of key candidates getKeyCandidates returns in the model.
MaxKeys == 5
\* Largest number of key candidates when the wide/full opt-ins are explored.
MaxKeysWide == 1
\* Largest number of key candidates when two calls overlap.
MaxKeysConc == 1
\* Number of cipher/init candidates getInitCandidates returns in the model.
NInits == 3
\* Largest number of raw keys tryTransparentDecryptOpen collects.
MaxRawKeys == 2
\* Key candidates of the probe stage that is followed child by child.
MaxProbeKeys == 9
\* Credential-manager targets that are read (the first ones of the list).
NTargets == 2
\* Longest blob, in chunks of 16 bytes.
MaxChunks == 4

\* ------------------------------------------------------- program constants
AES_BLOCK == 16
GCM_TAG == 16
PROBE_CONCURRENCY == 8
DefaultRetries == 3
DefaultKeyFastLimit == 20
DefaultInitFastLimit == 2
BackoffUnitMs == 50

\* ----------------------------------------------------------------- helpers
Min(a, b) == IF a < b THEN a ELSE b
Max(a, b) == IF a > b THEN a ELSE b

SeqsUpTo(S, n) == UNION {[1..k -> S] : k \in 0..n}

\* ------------------------------------------------------------ configurations
\* SqlcipherOpenConfig. initSql and keyExpr are candidate identifiers; 0 is the
\* empty init string / the '' key of a transparent configuration.  "none" is an
\* absent transparentDecryptKey.
NullConfig ==
  [initSql |-> 0, keyPragma |-> "null", keyExpr |-> 0, transparentDecryptKey |-> "none"]

PragmaConfig(init, key) ==
  [initSql |-> init, keyPragma |-> key.keyPragma, keyExpr |-> key.keyExpr,
   transparentDecryptKey |-> "none"]

TransparentConfig(key) ==
  [initSql |-> 0, keyPragma |-> "key", keyExpr |-> 0, transparentDecryptKey |-> key]

\* The key candidates the secret stores can yield, in discovery order.  The
\* same key expression appears under both pragma kinds: candidates are pairs.
KeyPool(n) ==
  [i \in 1..n |-> [keyPragma |-> IF i % 2 = 1 THEN "key" ELSE "hexkey",
                   keyExpr |-> (i + 1) \div 2]]

InitPool == [i \in 1..NInits |-> i]

\* ------------------------------------------------------------------ the vault
RawKeys == {"kA", "kB"}
FileLayouts == {"cbc0", "cbciv", "gcm12", "gcm16", "chacha12", "engine", "tiny"}
PlainKinds == {"sqlite", "corrupt", "other"}

\* The plaintext of a database file is a whole number of pages.
PlainLength == 32 * AES_BLOCK

\* Byte length of the vault file under each layout.
FileLength(file) ==
  CASE file.layout = "cbc0" -> PlainLength + AES_BLOCK            \* PKCS#7 padding block
    [] file.layout = "cbciv" -> AES_BLOCK + PlainLength + AES_BLOCK
    [] file.layout = "gcm12" -> 12 + PlainLength + GCM_TAG
    [] file.layout = "gcm16" -> 16 + PlainLength + GCM_TAG
    [] file.layout = "chacha12" -> 12 + PlainLength + GCM_TAG
    [] file.layout = "engine" -> PlainLength
    [] OTHER -> 8

\* Plaintext buffers: ok = FALSE is the null result.
NoPlain == [ok |-> FALSE, hdr |-> FALSE, valid |-> FALSE]

\* createDecipheriv(alg, key, iv) over the file: the file opens only under its
\* own layout and key; anything else throws (bad padding, bad tag) and the
\* callers turn that into null.
Decipher(file, layout, key) ==
  IF file.layout = layout /\ file.key = key
  THEN [ok |-> TRUE, hdr |-> file.plain \in {"sqlite", "corrupt"},
        valid |-> file.plain = "sqlite"]
  ELSE NoPlain

HeaderCheck(plain) == plain.ok /\ plain.hdr

decryptFileAes256Cbc(file, key) ==
  LET a == Decipher(file, "cbc0", key)
      b == Decipher(file, "cbciv", key)
  IN IF FileLength(file) % AES_BLOCK = 0 /\ HeaderCheck(a) THEN a
     ELSE IF FileLength(file) > AES_BLOCK
             /\ (FileLength(file) - AES_BLOCK) % AES_BLOCK = 0
             /\ HeaderCheck(b) THEN b
     ELSE NoPlain

decryptFileAes256Gcm(file, key, nonceLen) ==
  LET p == Decipher(file, IF nonceLen = 12 THEN "gcm12" ELSE "gcm16", key)
  IN IF FileLength(file) < nonceLen + GCM_TAG + 16 THEN NoPlain
     ELSE IF HeaderCheck(p) THEN p ELSE NoPlain

decryptFileChaCha20Poly1305(file, key, nonceLen) ==
  LET p == Decipher(file, IF nonceLen = 12 THEN "chacha12" ELSE "chacha16", key)
  IN IF FileLength(file) < nonceLen + GCM_TAG + 16 THEN NoPlain
     ELSE IF HeaderCheck(p) THEN p ELSE NoPlain

\* The ?? chain of tryTransparentDecryptOpen.
DecryptAnyLayout(file, key) ==
  LET c == decryptFileAes256Cbc(file, key)
      g12 == decryptFileAes256Gcm(file, key, 12)
      g16 == decryptFileAes256Gcm(file, key, 16)
      ch == decryptFileChaCha20Poly1305(file, key, 12)
  IN IF c.ok THEN c ELSE IF g12.ok THEN g12 ELSE IF g16.ok THEN g16 ELSE ch

\* ------------------------------------------------------- engine output text
IsWs(ch) == ch \in {" ", "\n"}

RECURSIVE TrimStart(_)
TrimStart(s) == IF s # <<>> /\ IsWs(Head(s)) THEN TrimStart(Tail(s)) ELSE s

RECURSIVE TrimEnd(_)
TrimEnd(s) ==
  IF s # <<>> /\ IsWs(s[Len(s)]) THEN TrimEnd(SubSeq(s, 1, Len(s) - 1)) ELSE s

Trim(s) == TrimEnd(TrimStart(s))

\* Length of the run of whitespace at the start of s.
RECURSIVE WsRun(_)
WsRun(s) == IF s # <<>> /\ IsWs(Head(s)) THEN 1 + WsRun(Tail(s)) ELSE 0

\* s.replace(/^(?:\s*ok\s*\r?\n)+/i, ""): drop leading "ok" lines.  The \s* after
\* "ok" is greedy, so one repetition ends at the last newline of the whitespace
\* run that follows "ok".
RECURSIVE StripOkLines(_)
StripOkLines(s) ==
  LET t == TrimStart(s)
      rest == SubSeq(t, 3, Len(t))
      run == WsRun(rest)
      nls == {i \in 1..run : rest[i] = "\n"}
      lastNl == CHOOSE i \in nls : \A j \in nls : j <= i
  IN IF Len(t) >= 2 /\ t[1] \in {"o", "O"} /\ t[2] \in {"k", "K"} /\ nls # {}
     THEN StripOkLines(SubSeq(rest, lastNl + 1, Len(rest)))
     ELSE s

stripShellPreamble(out) ==
  LET s == TrimStart(StripOkLines(out))
      opens == {i \in 1..Len(s) : s[i] \in {"[", "{"}}
      idx == CHOOSE i \in opens : \A j \in opens : i <= j
      cut == IF Len(s) > 0 /\ s[1] \notin {"[", "{"} /\ opens # {}
             THEN SubSeq(s, idx, Len(s)) ELSE s
  IN Trim(cut)

\* /\[\s*\{/.test(stdout)
LooksLikeRowArray(stdout) ==
  \E i \in 1..Len(stdout) : \E j \in (i + 1)..Len(stdout) :
     /\ stdout[i] = "["
     /\ stdout[j] = "{"
     /\ \A k \in (i + 1)..(j - 1) : IsWs(stdout[k])

\* JSON.parse over the texts the engine prints: an object "{}", or an array of
\* objects.  ok = FALSE is a SyntaxError.
NotWs(ch) == ~IsWs(ch)

JsonFail == [ok |-> FALSE, isArray |-> FALSE, length |-> 0]

JsonParse(text) ==
  LET t == SelectSeq(text, NotWs)
      inner == SubSeq(t, 2, Len(t) - 1)
      objs == /\ Len(inner) % 3 = 2
              /\ \A i \in 1..Len(inner) :
                   inner[i] = (CASE i % 3 = 1 -> "{" [] i % 3 = 2 -> "}" [] OTHER -> ",")
  IN IF t = <<"{", "}">> THEN [ok |-> TRUE, isArray |-> FALSE, length |-> 0]
     ELSE IF Len(t) >= 2 /\ t[1] = "[" /\ t[Len(t)] = "]"
     THEN IF inner = <<>> THEN [ok |-> TRUE, isArray |-> TRUE, length |-> 0]
          ELSE IF objs THEN [ok |-> TRUE, isArray |-> TRUE, length |-> (Len(inner) + 1) \div 3]
          ELSE JsonFail
     ELSE JsonFail

\* try { return JSON.parse(jsonStr.trim()) } catch { return [] }
ParseRows(stdout) ==
  CHOOSE rows \in
    {IF v.ok THEN v ELSE [ok |-> TRUE, isArray |-> TRUE, length |-> 0] :
       v \in {JsonParse(jsonStr) : jsonStr \in {Trim(stripShellPreamble(stdout))}}} : TRUE

\* Array.isArray(probeRows) && probeRows.length > 0
NonEmptyRows(v) == v.isArray /\ v.length > 0

\* Texts the engine writes to standard output.
OutNone == <<>>
OutRows == <<"[", "{", "}", "]", "\n">>
OutOkRows == <<"o", "k", "\n", "o", "k", "\n", "[", "{", "}", "]", "\n">>
OutOkOnly == <<"o", "k", "\n">>

\* Error texts, each with the searched phrases it contains.
Phrases(msg) ==
  CASE msg = "Error: database is locked" -> {"database is locked"}
    [] msg = "Error: database disk image is malformed" ->
         {"database disk image is malformed", "malformed"}
    [] msg = "Error: no such table: extensions" -> {"no such table"}
    [] msg = "Error: file is not a database" -> {"file is not a database"}
    [] msg = "Error: near line 1: syntax error" -> {"syntax error"}
    [] msg = "spawnSync sqlcipher ETIMEDOUT" -> {"etimedout"}
    [] msg = "Probe timeout" -> {"probe timeout"}
    [] OTHER -> {}

\* message.includes(phrase) over [err.message, err.stderr, err.stdout].filter(Boolean)
Includes(parts, phrase) == \E i \in 1..Len(parts) : phrase \in Phrases(parts[i])

\* A finished engine subprocess: error is the spawn error ("" when none), status
\* the exit code (-1 when null), signal the killing signal ("" when none).
Proc(error, status, signal, stdout, stderr) ==
  [error |-> error, status |-> status, signal |-> signal, stdout |-> stdout, stderr |-> stderr]

ProcRows == Proc("", 0, "", OutRows, "")
ProcOkRows == Proc("", 0, "", OutOkRows, "")
ProcNoRows == Proc("", 0, "", OutNone, "")
ProcOkNoRows == Proc("", 0, "", OutOkOnly, "")
ProcNotADb == Proc("", 1, "", OutNone, "Error: file is not a database")
ProcLocked == Proc("", 1, "", OutNone, "Error: database is locked")
ProcMalformed == Proc("", 1, "", OutNone, "Error: database disk image is malformed")
ProcNoTable == Proc("", 1, "", OutOkOnly, "Error: no such table: extensions")
ProcSyntax == Proc("", 1, "", OutNone, "Error: near line 1: syntax error")
ProcTimeout == Proc("spawnSync sqlcipher ETIMEDOUT", -1, "SIGTERM", OutNone, "")
ProcTimeoutAfterRows == Proc("spawnSync sqlcipher ETIMEDOUT", -1, "SIGTERM", OutRows, "")
ProcKilled == Proc("", -1, "SIGKILL", OutNone, "")

\* ------------------------------------------------------------------- state
Callers == {"prefs", "tokens"}

VARIABLES
  env,               \* the platform, the vault, the secret stores, the opt-ins
  cachedOpenConfig,  \* the module-level cache
  assigns,           \* how many times cachedOpenConfig has been assigned
  pc,                \* per caller: where its getWorkingOpenConfig call stands
  stage,             \* per caller: the probe stage it is in (0 = none)
  pool,              \* per caller: the state of probe()'s worker pool
  trace,             \* per caller: the steps its call has taken, in order
  ret,               \* per caller: the configuration its call returned
  trials,            \* per caller: what tryTransparentDecryptOpen tried
  replay,            \* per caller: the outcome of its first query afterwards
  q,                 \* a runSqlcipherQuery invocation
  err,               \* per caller: the error its call threw ("none" when none)
  kc,                \* a getKeyCandidates invocation and the secret stores it reads
  fl,                \* one probe stage with the temporary files of its probes
  td,                \* a tryTransparentDecryptOpen invocation with its temporary files
  sq,                \* a runSqlcipherQuery invocation with its temporary files
  ld,                \* a loader call: what it met and what it gave its caller
  lk,                \* the processes of ensureRaycastBackendCopy and the lock file
  fn,                \* a function of its input alone, with input and result
  web,               \* the HTTP server: its clock, its session table, main's server list
  shims,             \* the module state of shims.ts and the tool executions under way
  watcher            \* the extension watcher: its debounce timer and its reloads

vars ==
  <<env, cachedOpenConfig, assigns, pc, stage, pool, trace, ret, trials, replay, q, err, kc,
    fl, td, sq, ld, lk, fn, web, shims, watcher>>

\* ------------------------------------------------------------ the environment
fullProbe == env.full
wideProbe == fullProbe \/ env.wide

\* Which (init, key candidate) pairs open an engine-encrypted vault.
Working(init, keyIdx) ==
  env.file.layout = "engine" /\ keyIdx = env.goodKey /\ init \in env.goodInits

ConfigWorks(cfg) ==
  \E i \in 1..NInits : \E k \in 1..env.nKeys :
     cfg = PragmaConfig(InitPool[i], KeyPool(env.nKeys)[k]) /\ Working(InitPool[i], k)

getKeyCandidates == KeyPool(env.nKeys)

\* getMacKeyCandidates never returns an empty list: without the override, a
\* keychain read that fails makes execFileSync throw (nKeys = 0 on that platform).
KeychainThrows == env.platform = "darwin" /\ env.nKeys = 0
getInitCandidates == InitPool

\* slice(0, Math.max(1, LIMIT))
initFast == SubSeq(getInitCandidates, 1, Min(Len(getInitCandidates), Max(1, env.initFastLimit)))
keysFast == SubSeq(getKeyCandidates, 1, Min(Len(getKeyCandidates), Max(1, env.keyFastLimit)))

\* ---------------------------------------------- tryTransparentDecryptOpen
\* The engine run on a decrypted plaintext: what spawnSync can come back with.
TransparentProcs(plain) ==
  IF ~plain.ok THEN {ProcNoRows}
  ELSE IF plain.valid THEN {ProcRows, ProcTimeout, ProcTimeoutAfterRows}
  ELSE {ProcNotADb, ProcMalformed, ProcNoRows, ProcTimeout}

\* proc.status === 0 && proc.stdout && /\[\s*\{/.test(proc.stdout)
AcceptMutantNoStatus(proc) == proc.stdout # <<>> /\ LooksLikeRowArray(proc.stdout)
AcceptProbe(proc) == proc.status = 0 /\ proc.stdout # <<>> /\ LooksLikeRowArray(proc.stdout)

\* The loop over keysToTry from index i.  config is what the function returns:
\* the configuration of the first key whose plaintext carries the signature and
\* whose structural query is accepted.  log is what the loop did, key by key, up
\* to the key it returned on: the key, whether its plaintext carried the
\* signature, whether the engine was spawned, and what the engine came back with.
RECURSIVE TryKeysFrom(_, _, _, _)
TryKeysFrom(file, keys, procs, i) ==
  IF i > Len(keys) THEN [config |-> NullConfig, log |-> <<>>]
  ELSE LET plain == DecryptAnyLayout(file, keys[i])
           sig == plain.ok /\ plain.hdr
           entry == [key |-> keys[i], signature |-> sig, spawned |-> sig, proc |-> procs[i]]
           rest == TryKeysFrom(file, keys, procs, i + 1)
       IN IF ~sig THEN [config |-> rest.config, log |-> <<entry>> \o rest.log]
          ELSE IF AcceptProbe(procs[i])
          THEN [config |-> TransparentConfig(keys[i]), log |-> <<entry>>]
          ELSE [config |-> rest.config, log |-> <<entry>> \o rest.log]

tryTransparentDecryptOpen(procs) ==
  IF env.platform # "win32" THEN [config |-> NullConfig, log |-> <<>>]
  ELSE IF ~env.hasDb THEN [config |-> NullConfig, log |-> <<>>]
  ELSE IF FileLength(env.file) < 16 THEN [config |-> NullConfig, log |-> <<>>]
  ELSE TryKeysFrom(env.file, env.rawKeys, procs, 1)

\* The engine runs the environment can answer the loop with, one per key.
RECURSIVE RunsUpTo(_)
RunsUpTo(i) ==
  IF i = 0 THEN {<<>>}
  ELSE {Append(r, p) : r \in RunsUpTo(i - 1),
                       p \in TransparentProcs(DecryptAnyLayout(env.file, env.rawKeys[i]))}

TransparentRuns == RunsUpTo(Len(env.rawKeys))

\* ------------------------------------------------------- the probe worker pool
\* tasks of probe(initSubset, keySubset): inits outermost, keys inside (one db).
TaskList(initSubset, keyIdxs) ==
  [t \in 1..(Len(initSubset) * keyIdxs) |->
     [init |-> initSubset[((t - 1) \div keyIdxs) + 1], key |-> ((t - 1) % keyIdxs) + 1]]

StageTasks(s) ==
  TaskList(IF s \in {1, 2} THEN initFast ELSE getInitCandidates,
           IF s \in {1, 3} THEN Len(keysFast) ELSE Len(getKeyCandidates))

TaskConfig(task) == PragmaConfig(task.init, getKeyCandidates[task.key])

NoPool ==
  [tasks |-> <<>>, nextIdx |-> 1, winner |-> NullConfig, inflight |-> {},
   probed |-> <<>>, first |-> NullConfig]

\* const idx = nextIdx++ (indices are 1-based here)
ClaimNoIncrement(p) == p
Claim(p) == [p EXCEPT !.nextIdx = @ + 1]

\* if (idx >= tasks.length || winner) return;
Skips(p, idx) == idx > Len(p.tasks) \/ p.winner # NullConfig

\* runOne up to its await: claim an index and, unless it is past the end or a
\* winner is recorded, spawn the probe for it.
runOne(p) ==
  LET idx == p.nextIdx
      c == Claim(p)
  IN IF Skips(p, idx) THEN c
     ELSE [c EXCEPT !.inflight = @ \cup {idx}, !.probed[idx] = @ + 1]

\* Array.from({ length: PROBE_CONCURRENCY }, () => runOne())
RECURSIVE StartWorkers(_, _)
StartWorkers(p, n) ==
  IF n = 0 THEN p
  ELSE CHOOSE r \in {StartWorkers(started, n - 1) : started \in {runOne(p)}} : TRUE

probe(s) ==
  StartWorkers([NoPool EXCEPT !.tasks = StageTasks(s),
                              !.probed = [t \in 1..Len(StageTasks(s)) |-> 0]],
               PROBE_CONCURRENCY)

\* What one probe subprocess can come back with.
ProbeProcs(task) ==
  IF Working(task.init, task.key)
  THEN {ProcOkRows, Proc("Probe timeout", -1, "", OutNone, "")}
  ELSE {ProcNotADb, Proc("Probe timeout", -1, "", OutNone, "")}

\* runSqlcipherQueryAsync's promise: resolved with the parsed rows, or rejected.
runSqlcipherQueryAsync(proc) ==
  IF proc.error # "" THEN [resolved |-> FALSE, rows |-> JsonFail, parts |-> <<proc.error>>]
  ELSE IF proc.signal # ""
  THEN [resolved |-> FALSE, rows |-> JsonFail, parts |-> <<"sqlcipher signal">>]
  ELSE IF proc.status # 0
  THEN [resolved |-> FALSE, rows |-> JsonFail, parts |-> <<"sqlcipher exited", proc.stderr>>]
  ELSE [resolved |-> TRUE, rows |-> ParseRows(proc.stdout), parts |-> <<>>]

\* winner = {...}: the assignment at the end of a successful probe.
RecordWinner(p, cfg) == [p EXCEPT !.winner = cfg]

\* if (!winner) await runOne();
ContinueNever(p) == p
Continue(p) == IF p.winner = NullConfig THEN runOne(p) ELSE p

\* runOne after its await, for the probe of task idx.
ProbeFinishedKeepsGoing(p, idx, proc) ==
  LET res == runSqlcipherQueryAsync(proc)
      cfg == TaskConfig(p.tasks[idx])
      landed == [p EXCEPT !.inflight = @ \ {idx}]
      nxt == landed.nextIdx
  IN IF res.resolved /\ NonEmptyRows(res.rows)
     THEN [RecordWinner(landed, cfg) EXCEPT
             !.first = IF landed.first = NullConfig THEN cfg ELSE @]
     ELSE IF nxt > Len(landed.tasks) THEN Claim(landed)
     ELSE [Claim(landed) EXCEPT !.inflight = @ \cup {nxt}, !.probed[nxt] = @ + 1]

ProbeNeverSettles(p, idx, proc) == p

ProbeFinished(p, idx, proc) ==
  CHOOSE after \in
    {IF res.resolved /\ NonEmptyRows(res.rows)
     THEN [RecordWinner(landed, cfg) EXCEPT
             !.first = IF landed.first = NullConfig THEN cfg ELSE @]
     ELSE Continue(landed) :
       res \in {runSqlcipherQueryAsync(proc)},
       cfg \in {TaskConfig(p.tasks[idx])},
       landed \in {[p EXCEPT !.inflight = @ \ {idx}]}} : TRUE

\* The stage that follows stage s when it returned no winner (0 = none).
NextStageIgnoringOptIns(s) == IF s < 4 THEN s + 1 ELSE 0

NextStage(s) ==
  CASE s = 1 -> 2
    [] s = 2 -> IF wideProbe THEN 3 ELSE IF fullProbe THEN 4 ELSE 0
    [] s = 3 -> IF fullProbe THEN 4 ELSE 0
    [] OTHER -> 0

\* --------------------------------------------------------- runSqlcipherQuery
RowsValue(n) == [ok |-> TRUE, isArray |-> TRUE, length |-> n]

\* The transparent branch: decrypt with AES-256-CBC, query the plaintext, and
\* return [] on every failure.  spawned tells whether the engine was run.
QueryTransparent(file, cfg, proc) ==
  LET plain == decryptFileAes256Cbc(file, cfg.transparentDecryptKey)
      ready == /\ FileLength(file) >= 16
               /\ FileLength(file) % AES_BLOCK = 0
               /\ plain.ok /\ plain.hdr
  IN [spawned |-> ready,
      rows |-> IF ready /\ proc.status = 0 /\ proc.stdout # <<>>
               THEN ParseRows(proc.stdout) ELSE RowsValue(0)]

\* One iteration of the retry loop up to its catch: the rows it returns, or the
\* parts of the message of the error it throws.
QueryAttempt(proc) ==
  IF proc.error # "" THEN [threw |-> TRUE, rows |-> RowsValue(0), parts |-> <<proc.error>>]
  ELSE IF proc.status # -1 /\ proc.status # 0
  THEN [threw |-> TRUE, rows |-> RowsValue(0),
        parts |-> <<"sqlcipher exited with code", proc.stderr>>]
  ELSE IF proc.signal # ""
  THEN [threw |-> TRUE, rows |-> RowsValue(0),
        parts |-> <<"sqlcipher exited due to signal", proc.stderr>>]
  ELSE [threw |-> FALSE, rows |-> ParseRows(proc.stdout), parts |-> <<>>]

isTransient(parts) ==
  \/ Includes(parts, "database is locked")
  \/ Includes(parts, "database disk image is malformed")
  \/ Includes(parts, "no such table")

\* isTransient && attempt < retries
RetriesMutantOffByOne(transient, attempt, retries) == transient /\ attempt <= retries
Retries(transient, attempt, retries) == transient /\ attempt < retries

\* sleepSync(50 * attempt)
Backoff(attempt) == BackoffUnitMs * attempt

\* The engine run on the unchanged vault, with nothing else interfering.
EngineProc(cfg) ==
  IF cfg.transparentDecryptKey # "none"
  THEN IF decryptFileAes256Cbc(env.file, cfg.transparentDecryptKey).valid
       THEN ProcRows ELSE ProcNotADb
  ELSE IF ConfigWorks(cfg) THEN ProcOkRows ELSE ProcNotADb

\* The first attempt of runSqlcipherQuery under cfg on the unchanged vault.
FirstAttempt(cfg) ==
  IF cfg.transparentDecryptKey # "none"
  THEN LET r == QueryTransparent(env.file, cfg, EngineProc(cfg))
       IN IF NonEmptyRows(r.rows) THEN "rows" ELSE "empty"
  ELSE LET a == QueryAttempt(EngineProc(cfg))
       IN IF a.threw THEN "threw" ELSE IF NonEmptyRows(a.rows) THEN "rows" ELSE "empty"

\* ------------------------------------------------------ getWorkingOpenConfig
StageLabel(s) ==
  CASE s = 1 -> "probe:fast inits + fast keys"
    [] s = 2 -> "probe:fast inits + all keys"
    [] s = 3 -> "probe:all inits + fast keys"
    [] OTHER -> "probe:FULL"

\* if (cachedOpenConfig) return cachedOpenConfig;
CacheHitNever == FALSE
CacheHitAfterFailure == cachedOpenConfig # NullConfig \/ \E c \in Callers : pc[c] = "threw"
CacheHit == cachedOpenConfig # NullConfig

\* The callers (loadRaycastPreferences, loadRaycastTokens) are awaited one after
\* the other by the server; env.concurrent lets their calls overlap instead.
CallAllowed(c) ==
  /\ pc[c] = "idle"
  /\ env.concurrent \/ \A d \in Callers \ {c} : pc[d] # "probing"

SearchPrefixKeysFirst == <<"listRaycastDbFiles", "getKeyCandidates", "tryTransparentDecryptOpen">>
SearchPrefix == <<"listRaycastDbFiles", "tryTransparentDecryptOpen">>

\* The call finds the cache set.
CallCached(c) ==
  /\ CallAllowed(c)
  /\ CacheHit
  /\ pc' = [pc EXCEPT ![c] = "returned"]
  /\ ret' = [ret EXCEPT ![c] = cachedOpenConfig]
  /\ UNCHANGED <<err, kc, fl, td, sq, env, web, shims, watcher, ld, lk, fn, cachedOpenConfig, assigns, stage, pool, trace, trials, replay, q>>

\* dbs.length === 0: throw.
CallNoDb(c) ==
  /\ CallAllowed(c)
  /\ ~CacheHit
  /\ ~env.hasDb
  /\ pc' = [pc EXCEPT ![c] = "threw"]
  /\ err' = [err EXCEPT ![c] = "No Raycast database files found"]
  /\ trace' = [trace EXCEPT ![c] = <<"listRaycastDbFiles">>]
  /\ UNCHANGED <<kc, fl, td, sq, env, web, shims, watcher, ld, lk, fn, cachedOpenConfig, assigns, stage, pool, ret, trials, replay, q>>

\* The transparent decryptor returns a configuration: cache it and return.
CallTransparentHit(c) ==
  /\ CallAllowed(c)
  /\ ~CacheHit
  /\ env.hasDb
  /\ \E procs \in TransparentRuns :
        LET t == tryTransparentDecryptOpen(procs)
        IN /\ t.config # NullConfig
           /\ cachedOpenConfig' = t.config
           /\ assigns' = assigns + 1
           /\ ret' = [ret EXCEPT ![c] = t.config]
           /\ trials' = [trials EXCEPT ![c] = t.log]
  /\ pc' = [pc EXCEPT ![c] = "returned"]
  /\ trace' = [trace EXCEPT ![c] = SearchPrefix]
  /\ UNCHANGED <<err, kc, fl, td, sq, env, web, shims, watcher, ld, lk, fn, stage, pool, replay, q>>

\* The transparent decryptor returns null and there is no key candidate: throw.
CallNoKeys(c) ==
  /\ CallAllowed(c)
  /\ ~CacheHit
  /\ env.hasDb
  /\ \E procs \in TransparentRuns :
        LET t == tryTransparentDecryptOpen(procs)
        IN /\ t.config = NullConfig
           /\ trials' = [trials EXCEPT ![c] = t.log]
  /\ ~KeychainThrows
  /\ Len(getKeyCandidates) = 0
  /\ pc' = [pc EXCEPT ![c] = "threw"]
  /\ err' = [err EXCEPT ![c] = "No Raycast DB key candidates found"]
  /\ trace' = [trace EXCEPT ![c] = SearchPrefix \o <<"getKeyCandidates">>]
  /\ UNCHANGED <<kc, fl, td, sq, env, web, shims, watcher, ld, lk, fn, cachedOpenConfig, assigns, stage, pool, ret, replay, q>>

\* getKeyCandidates throws: the error of the keychain command leaves the call.
CallKeysThrow(c) ==
  /\ CallAllowed(c)
  /\ ~CacheHit
  /\ env.hasDb
  /\ \E procs \in TransparentRuns :
        LET t == tryTransparentDecryptOpen(procs)
        IN /\ t.config = NullConfig
           /\ trials' = [trials EXCEPT ![c] = t.log]
  /\ KeychainThrows
  /\ pc' = [pc EXCEPT ![c] = "threw"]
  /\ err' = [err EXCEPT ![c] = "Command failed: security find-generic-password"]
  /\ trace' = [trace EXCEPT ![c] = SearchPrefix \o <<"getKeyCandidates">>]
  /\ UNCHANGED <<kc, fl, td, sq, env, web, shims, watcher, ld, lk, fn, cachedOpenConfig, assigns, stage, pool, ret, replay, q>>

\* The transparent decryptor returns null: generate the candidates and start the
\* first stage, up to the await of probe().
CallStartProbing(c) ==
  /\ CallAllowed(c)
  /\ ~CacheHit
  /\ env.hasDb
  /\ \E procs \in TransparentRuns :
        LET t == tryTransparentDecryptOpen(procs)
        IN /\ t.config = NullConfig
           /\ trials' = [trials EXCEPT ![c] = t.log]
  /\ Len(getKeyCandidates) > 0
  /\ pc' = [pc EXCEPT ![c] = "probing"]
  /\ stage' = [stage EXCEPT ![c] = 1]
  /\ pool' = [pool EXCEPT ![c] = probe(1)]
  /\ trace' = [trace EXCEPT ![c] =
        SearchPrefix \o <<"getKeyCandidates", "getInitCandidates", StageLabel(1)>>]
  /\ UNCHANGED <<err, kc, fl, td, sq, env, web, shims, watcher, ld, lk, fn, cachedOpenConfig, assigns, ret, replay, q>>

\* One probe subprocess of the caller's stage ends and its worker carries on.
ProbeDone(c) ==
  /\ pc[c] = "probing"
  /\ \E idx \in pool[c].inflight : \E proc \in ProbeProcs(pool[c].tasks[idx]) :
        pool' = [pool EXCEPT ![c] = ProbeFinished(pool[c], idx, proc)]
  /\ UNCHANGED <<err, kc, fl, td, sq, env, web, shims, watcher, ld, lk, fn, cachedOpenConfig, assigns, pc, stage, trace, ret, trials, replay, q>>

\* Promise.all has resolved: every worker of the stage has returned.
StageOver(c) == pc[c] = "probing" /\ pool[c].inflight = {}

\* The stage returned a winner: cachedOpenConfig = winner; return.
StageWon(c) ==
  /\ StageOver(c)
  /\ pool[c].winner # NullConfig
  /\ cachedOpenConfig' = pool[c].winner
  /\ assigns' = assigns + 1
  /\ ret' = [ret EXCEPT ![c] = pool[c].winner]
  /\ pc' = [pc EXCEPT ![c] = "returned"]
  /\ UNCHANGED <<err, kc, fl, td, sq, env, web, shims, watcher, ld, lk, fn, stage, pool, trace, trials, replay, q>>

\* The stage returned no winner and a further stage is enabled: start it.
StageNext(c) ==
  /\ StageOver(c)
  /\ pool[c].winner = NullConfig
  /\ NextStage(stage[c]) # 0
  /\ stage' = [stage EXCEPT ![c] = NextStage(stage[c])]
  /\ pool' = [pool EXCEPT ![c] = probe(NextStage(stage[c]))]
  /\ trace' = [trace EXCEPT ![c] = Append(@, StageLabel(NextStage(stage[c])))]
  /\ UNCHANGED <<err, kc, fl, td, sq, env, web, shims, watcher, ld, lk, fn, cachedOpenConfig, assigns, pc, ret, trials, replay, q>>

\* Every enabled stage returned no winner: throw.
StageExhausted(c) ==
  /\ StageOver(c)
  /\ pool[c].winner = NullConfig
  /\ NextStage(stage[c]) = 0
  /\ pc' = [pc EXCEPT ![c] = "threw"]
  /\ err' = [err EXCEPT ![c] = "Could not open Raycast DB with any known key candidate"]
  /\ UNCHANGED <<kc, fl, td, sq, env, web, shims, watcher, ld, lk, fn, cachedOpenConfig, assigns, stage, pool, trace, ret, trials, replay, q>>

\* The caller's first query under the configuration it got, vault unchanged.
Replay(c) ==
  /\ pc[c] = "returned"
  /\ replay[c] = "none"
  /\ replay' = [replay EXCEPT ![c] = FirstAttempt(ret[c])]
  /\ UNCHANGED <<err, kc, fl, td, sq, env, web, shims, watcher, ld, lk, fn, cachedOpenConfig, assigns, pc, stage, pool, trace, ret, trials, q>>

\* ------------------------------------------------------------ initial states
EnvRecord(platform, concurrent, hasDb, file, rawKeys, nKeys, goodKey, goodInits, full, wide, keyFastLimit, initFastLimit) ==
  [platform |-> platform, concurrent |-> concurrent, hasDb |-> hasDb, file |-> file,
   rawKeys |-> rawKeys, nKeys |-> nKeys, goodKey |-> goodKey, goodInits |-> goodInits,
   full |-> full, wide |-> wide, keyFastLimit |-> keyFastLimit,
   initFastLimit |-> initFastLimit]

EngineFile == [layout |-> "engine", key |-> "kA", plain |-> "sqlite"]

\* The inits that open an engine-encrypted vault with the right key: one scheme,
\* or a scheme with and without the legacy WAL flag (adjacent candidates).
GoodInitSets == {{1}, {1, 2}, {NInits}, {NInits - 1, NInits}}
\* The same among the fast inits, the only ones the default opt-ins probe.
FastGoodInitSets == {{1}, {2}, {1, 2}}

\* Engine-encrypted vaults, calls one after the other, default opt-ins: the
\* second stage has more tasks than workers.
PoolEnvs ==
  {EnvRecord("win32", FALSE, TRUE, EngineFile, <<>>, n, g, S, FALSE, FALSE, 1,
             DefaultInitFastLimit) :
     n \in {0, MaxKeys}, g \in {0, 1, MaxKeys}, S \in FastGoodInitSets \cup {{}}}

\* Engine-encrypted vaults with the wide or full opt-in.
WideEnvs ==
  {EnvRecord("win32", FALSE, TRUE, EngineFile, <<"kB">>, n, g, S, full, ~full, 1, 1) :
     n \in {MaxKeysWide}, g \in {0, 1, MaxKeysWide}, S \in GoodInitSets \cup {{}},
     full \in BOOLEAN}

\* Two overlapping calls.
ConcEnvs ==
  {EnvRecord("win32", TRUE, TRUE, EngineFile, <<>>, n, g, S, FALSE, FALSE,
             DefaultKeyFastLimit, DefaultInitFastLimit) :
     n \in 0..MaxKeysConc, g \in 0..MaxKeysConc, S \in FastGoodInitSets \cup {{}}}

\* File-level encrypted vaults.
TransparentFiles ==
  {[layout |-> l, key |-> k, plain |-> p] :
     l \in FileLayouts \ {"engine"}, k \in RawKeys, p \in PlainKinds}

\* File-level encrypted vaults on the platform that has them; a store that
\* yields a raw key yields key candidates too, none of which opens such a vault.
TransparentEnvs ==
  {EnvRecord("win32", FALSE, TRUE, f, ks, IF ks = <<>> THEN 0 ELSE 1, 0, {}, FALSE, FALSE,
             DefaultKeyFastLimit, 1) :
     f \in TransparentFiles, ks \in SeqsUpTo(RawKeys, MaxRawKeys)}

\* The other platform, a directory without database files, and probing after the
\* transparent decryptor has given up.
OtherEnvs ==
  {EnvRecord(pf, FALSE, hasDb, f, <<"kA">>, n, 0, {}, FALSE, FALSE, DefaultKeyFastLimit,
             DefaultInitFastLimit) :
     pf \in {"win32", "darwin"}, hasDb \in BOOLEAN,
     f \in {[layout |-> "cbciv", key |-> "kA", plain |-> p] : p \in PlainKinds}
           \cup {[layout |-> "tiny", key |-> "kA", plain |-> "other"]},
     n \in {0, 1}}

\* The key sources are shared: on win32 a raw key comes from a blob that also
\* yields key candidates; on darwin the keychain yields one candidate or throws.
WellFormed(e) ==
  /\ e.goodKey <= e.nKeys
  /\ (e.goodKey = 0) = (e.goodInits = {})
  /\ e.platform = "win32" /\ e.rawKeys # <<>> => e.nKeys > 0
  /\ e.platform = "darwin" => e.nKeys <= 1

Envs ==
  {e \in PoolEnvs \cup WideEnvs \cup ConcEnvs \cup TransparentEnvs \cup OtherEnvs :
     WellFormed(e)}

KcIdle == [phase |-> "idle"]
FlIdle == [phase |-> "idle"]
TdIdle == [phase |-> "idle"]
SqIdle == [phase |-> "idle"]
LdIdle == [phase |-> "idle"]
LkIdle == [phase |-> "idle"]
FnIdle == [phase |-> "idle"]
WebIdle == [phase |-> "idle"]
ShimsIdle == [phase |-> "idle"]
WatcherIdle == [phase |-> "idle"]

QIdle ==
  [phase |-> "idle", cfg |-> NullConfig, attempt |-> 0, sleeps |-> <<>>, log |-> <<>>,
   rows |-> RowsValue(0)]

Init ==
  /\ web = WebIdle
  /\ shims = ShimsIdle
  /\ watcher = WatcherIdle
  /\ env \in Envs
  /\ cachedOpenConfig = NullConfig
  /\ assigns = 0
  /\ pc = [c \in Callers |-> "idle"]
  /\ stage = [c \in Callers |-> 0]
  /\ pool = [c \in Callers |-> NoPool]
  /\ trace = [c \in Callers |-> <<>>]
  /\ ret = [c \in Callers |-> NullConfig]
  /\ trials = [c \in Callers |-> <<>>]
  /\ replay = [c \in Callers |-> "none"]
  /\ q = QIdle
  /\ ld = LdIdle
  /\ lk = LkIdle
  /\ fn = FnIdle
  /\ err = [c \in Callers |-> "none"]
  /\ kc = KcIdle
  /\ fl = FlIdle
  /\ td = TdIdle
  /\ sq = SqIdle

Next ==
  \/ \E c \in Callers : CallCached(c)
  \/ \E c \in Callers : CallNoDb(c)
  \/ \E c \in Callers : CallTransparentHit(c)
  \/ \E c \in Callers : CallNoKeys(c)
  \/ \E c \in Callers : CallKeysThrow(c)
  \/ \E c \in Callers : CallStartProbing(c)
  \/ \E c \in Callers : ProbeDone(c)
  \/ \E c \in Callers : StageWon(c)
  \/ \E c \in Callers : StageNext(c)
  \/ \E c \in Callers : StageExhausted(c)
  \/ \E c \in Callers : Replay(c)

Spec == Init /\ [][Next]_vars

\* ------------------------------------------------ runSqlcipherQuery, stepwise
\* What the engine can come back with for one attempt of a query.
QueryProcs(cfg) ==
  {EngineProc(cfg), ProcOkNoRows, ProcLocked, ProcMalformed, ProcNoTable, ProcSyntax,
   ProcTimeout, ProcKilled}

\* The configurations a query is run under: the candidates' and the transparent ones.
QueryConfigs ==
  {PragmaConfig(InitPool[i], KeyPool(env.nKeys)[k]) : i \in 1..NInits, k \in 1..env.nKeys}
    \cup {TransparentConfig(k) : k \in RawKeys}

\* runSqlcipherQuery(sqlcipherPath, dbPath, openConfig, sql) is entered.
QueryStart ==
  /\ q.phase = "idle"
  /\ \E cfg \in QueryConfigs :
        q' = [QIdle EXCEPT !.phase = "running", !.cfg = cfg, !.attempt = 1]
  /\ UNCHANGED <<err, kc, fl, td, sq, env, web, shims, watcher, ld, lk, fn, cachedOpenConfig, assigns, pc, stage, pool, trace, ret, trials, replay>>

\* The transparent branch, which returns on every path.
QueryTransparentBranch ==
  /\ q.phase = "running"
  /\ q.cfg.transparentDecryptKey # "none"
  /\ \E proc \in QueryProcs(q.cfg) :
        LET r == QueryTransparent(env.file, q.cfg, proc)
        IN q' = [q EXCEPT !.phase = "returned", !.rows = r.rows,
                          !.log = IF r.spawned THEN Append(@, proc) ELSE @]
  /\ UNCHANGED <<err, kc, fl, td, sq, env, web, shims, watcher, ld, lk, fn, cachedOpenConfig, assigns, pc, stage, pool, trace, ret, trials, replay>>

\* One iteration of for (attempt = 1; attempt <= retries; attempt++), and the
\* return after the loop when the iteration was the last.
QueryLoopIteration ==
  /\ q.phase = "running"
  /\ q.cfg.transparentDecryptKey = "none"
  /\ q.attempt <= DefaultRetries
  /\ \E proc \in QueryProcs(q.cfg) :
        LET a == QueryAttempt(proc)
            logged == [q EXCEPT !.log = Append(@, proc)]
        IN q' = IF ~a.threw THEN [logged EXCEPT !.phase = "returned", !.rows = a.rows]
                ELSE IF Retries(isTransient(a.parts), q.attempt, DefaultRetries)
                THEN [logged EXCEPT !.sleeps = Append(@, Backoff(q.attempt)),
                                    !.attempt = @ + 1,
                                    !.phase = IF q.attempt + 1 <= DefaultRetries
                                              THEN "running" ELSE "returned"]
                ELSE [logged EXCEPT !.phase = "threw"]
  /\ UNCHANGED <<err, kc, fl, td, sq, env, web, shims, watcher, ld, lk, fn, cachedOpenConfig, assigns, pc, stage, pool, trace, ret, trials, replay>>

QueryEnvs ==
  {EnvRecord("win32", FALSE, TRUE, EngineFile, <<>>, 2, 1, {1}, FALSE, FALSE,
             DefaultKeyFastLimit, DefaultInitFastLimit)}
    \cup {EnvRecord("win32", FALSE, TRUE, [layout |-> l, key |-> "kA", plain |-> "sqlite"],
                    <<"kA">>, 1, 0, {}, FALSE, FALSE, DefaultKeyFastLimit,
                    DefaultInitFastLimit) : l \in {"cbc0", "cbciv", "gcm12", "gcm16"}}

InitQuery ==
  /\ web = WebIdle
  /\ shims = ShimsIdle
  /\ watcher = WatcherIdle
  /\ env \in QueryEnvs
  /\ cachedOpenConfig = NullConfig
  /\ assigns = 0
  /\ pc = [c \in Callers |-> "idle"]
  /\ stage = [c \in Callers |-> 0]
  /\ pool = [c \in Callers |-> NoPool]
  /\ trace = [c \in Callers |-> <<>>]
  /\ ret = [c \in Callers |-> NullConfig]
  /\ trials = [c \in Callers |-> <<>>]
  /\ replay = [c \in Callers |-> "none"]
  /\ q = QIdle
  /\ ld = LdIdle
  /\ lk = LkIdle
  /\ fn = FnIdle
  /\ err = [c \in Callers |-> "none"]
  /\ kc = KcIdle
  /\ fl = FlIdle
  /\ td = TdIdle
  /\ sq = SqIdle

NextQuery ==
  \/ QueryStart
  \/ QueryTransparentBranch
  \/ QueryLoopIteration

SpecQuery == InitQuery /\ [][NextQuery]_vars

\* ------------------------------- temporary files of a probe or query subprocess
\* The files of a private temporary directory, by the suffix after tmpDb.
DbExts == {"", "-wal", "-shm"}

\* A directory that mkdtempSync has not created yet.
NoDir == [exists |-> FALSE, files |-> {}]

\* mkdtempSync(join(tmpdir(), "raybridge-db-"))
mkdtempSync == [exists |-> TRUE, files |-> {}]

\* cleanup(): unlinkSync of each of tmpDb, tmpDb-wal, tmpDb-shm, each in its own
\* try, then rmdirSync, which removes the directory only when it is empty.
\* tryTransparentDecryptOpen's own cleanup: one try around the three unlinkSync
\* calls and the rmdirSync, so the first missing file ends it.
DecryptCleanup(dir) ==
  IF DbExts \subseteq dir.files THEN NoDir
  ELSE [dir EXCEPT !.files = @ \ (IF "" \in @ THEN IF "-wal" \in @ THEN {"", "-wal"} ELSE {""}
                                  ELSE {})]

CleanupStopsAtMissingFile(dir) == DecryptCleanup(dir)
cleanup(dir) ==
  LET left == dir.files \ DbExts
  IN IF dir.exists /\ left = {} THEN NoDir ELSE [dir EXCEPT !.files = left]

\* The vault as the copy finds it: the companions that exist beside it, and the
\* file at which copyFileSync throws ("none" when the copy goes through).
CopyFailures == {"none", "", "-wal"}

\* copyFileSync(dbPath, tmpDb); for -wal, -shm: if (existsSync(src)) copyFileSync;
\* catch { targetDb = dbPath }.  target is what the engine is then spawned on.
TargetAlwaysTmp(copied) == "tmp"
TargetDb(copied) == IF copied THEN "tmp" ELSE "orig"

RECURSIVE CopyFrom(_, _, _)
CopyFrom(exts, world, dir) ==
  IF exts = <<>> THEN [dir |-> dir, copied |-> TRUE]
  ELSE IF Head(exts) # "" /\ Head(exts) \notin world.companions
  THEN CopyFrom(Tail(exts), world, dir)
  ELSE IF world.copyFails = Head(exts) THEN [dir |-> dir, copied |-> FALSE]
  ELSE CopyFrom(Tail(exts), world, [dir EXCEPT !.files = @ \cup {Head(exts)}])

CopyVault(world, dir) ==
  LET c == CopyFrom(<<"", "-wal", "-shm">>, world, dir)
  IN [dir |-> c.dir, target |-> TargetDb(c.copied)]

\* What the engine leaves beside the file it was spawned on.
EngineLeaves == {{}, {"-wal", "-shm"}}

EngineWrote(run, left) ==
  IF run.target = "tmp" /\ run.dir.exists
  THEN [run EXCEPT !.dir.files = @ \cup left] ELSE run

\* One runSqlcipherQueryAsync call: its child process, its timer, its promise.
NoRun ==
  [st |-> "unborn", dir |-> NoDir, target |-> "none", settled |-> "pending", killed |-> FALSE]

\* runSqlcipherQueryAsync up to the return of its promise (pragma configuration).
AsyncSpawn(world) ==
  LET c == CopyVault(world, mkdtempSync)
  IN [st |-> "running", dir |-> c.dir, target |-> c.target, settled |-> "pending",
      killed |-> FALSE]

\* incErr(k)
ErrorCategories ==
  {"probe_empty", "not_a_database", "locked", "timeout", "syntax", "malformed", "other"}

incErr(counts, k) == [counts EXCEPT ![k] = @ + 1]

\* The chain of msg.includes(...) tests in runOne's catch.
CategoryMissesProbeTimeout(parts) ==
  IF Includes(parts, "file is not a database") THEN "not_a_database"
  ELSE IF Includes(parts, "database is locked") THEN "locked"
  ELSE IF Includes(parts, "etimedout") \/ Includes(parts, "timed out") THEN "timeout"
  ELSE IF Includes(parts, "syntax error") THEN "syntax"
  ELSE IF Includes(parts, "malformed") THEN "malformed"
  ELSE "other"
Category(parts) ==
  IF Includes(parts, "file is not a database") THEN "not_a_database"
  ELSE IF Includes(parts, "database is locked") THEN "locked"
  ELSE IF \/ Includes(parts, "etimedout") \/ Includes(parts, "timed out")
          \/ Includes(parts, "probe timeout") THEN "timeout"
  ELSE IF Includes(parts, "syntax error") THEN "syntax"
  ELSE IF Includes(parts, "malformed") THEN "malformed"
  ELSE "other"

\* What runOne counts for a settled probe ("none" for a winner).
ProbeCategory(res) ==
  IF res.resolved THEN IF NonEmptyRows(res.rows) THEN "none" ELSE "probe_empty"
  ELSE Category(res.parts)

\* reject(new Error("Probe timeout")) as runSqlcipherQueryAsync's outcome.
ProcProbeTimeout == Proc("Probe timeout", -1, "", OutNone, "")
\* child.on("error", ...) for an engine that cannot be spawned.
ProcSpawnError == Proc("spawn sqlcipher ENOENT", -1, "", OutNone, "")

\* What the close event of a probe's child reports.
CloseProcs(world, task) == IF Working(task.init, task.key) THEN ProcOkRows ELSE world.wrong

\* ------------------------------------------ one probe stage with its children
\* The stage's world: the vault's companions, where the copy fails, which tasks'
\* children outlive PROBE_TIMEOUT_MS, whether the engine can be spawned, and what
\* its close event reports for a configuration that does not open the vault.
World(companions, copyFails, slow, enoent, wrong) ==
  [companions |-> companions, copyFails |-> copyFails, slow |-> slow, enoent |-> enoent,
   wrong |-> wrong]

NoCounts == [k \in ErrorCategories |-> 0]

\* fl before probe() is called.
FlReady(world) ==
  [phase |-> "ready", world |-> world, p |-> NoPool, runs |-> <<>>, errorCounts |-> NoCounts,
   counted |-> <<>>, after |-> <<>>, targets |-> {}]

\* The children spawned by the runOne calls that took the pool from p to np.
SpawnClaimed(f, p, np) ==
  [f EXCEPT !.p = np,
            !.runs = [i \in DOMAIN f.runs |->
                        IF i \in np.inflight \ p.inflight THEN AsyncSpawn(f.world) ELSE @[i]],
            !.targets = @ \cup (IF np.inflight \ p.inflight = {} THEN {}
                                ELSE {AsyncSpawn(f.world).target})]

\* runOne after the await of task idx: k is what it counts ("none" for a
\* winner), np the pool as runOne leaves it.
Settled(f, idx, k, np) ==
  LET g == [f EXCEPT !.errorCounts = IF k = "none" THEN @ ELSE incErr(@, k),
                     !.counted[idx] = IF k = "none" THEN @ ELSE Append(@, k),
                     !.after[idx] = [winner |-> f.p.winner # NullConfig,
                                     claimed |-> np.nextIdx - f.p.nextIdx],
                     !.runs[idx].settled = IF k = "none" THEN "resolved" ELSE "rejected"]
  IN SpawnClaimed(g, [f.p EXCEPT !.inflight = @ \ {idx}], np)

\* The promise of task idx settles with proc: runOne counts the failure and goes
\* on (if (!winner) await runOne()), or records the winner.
Settle(f, idx, proc) ==
  Settled(f, idx, ProbeCategory(runSqlcipherQueryAsync(proc)), ProbeFinished(f.p, idx, proc))

\* probe(initFast, keysFast, ...): the workers start and claim the first tasks.
FlProbe ==
  /\ fl.phase = "ready"
  /\ LET f == [fl EXCEPT !.phase = "probing",
                         !.runs = [i \in 1..Len(StageTasks(1)) |-> NoRun],
                         !.counted = [i \in 1..Len(StageTasks(1)) |-> <<>>],
                         !.after = [i \in 1..Len(StageTasks(1)) |->
                                      [winner |-> FALSE, claimed |-> 0]]]
     IN fl' = SpawnClaimed(f, NoPool, probe(1))
  /\ UNCHANGED <<env, web, shims, watcher, ld, lk, fn, cachedOpenConfig, assigns, pc, stage, pool, trace, ret, trials, replay, q,
                 err, kc, td, sq>>

\* setTimeout fires for task idx: child.kill(); cleanup(); reject("Probe timeout").
FlTimeout ==
  /\ fl.phase = "probing"
  /\ \E idx \in fl.world.slow \cap DOMAIN fl.runs : \E left \in EngineLeaves :
        /\ fl.runs[idx].st = "running"
        /\ LET r == EngineWrote(fl.runs[idx], left)
               f == [fl EXCEPT !.runs[idx] = [r EXCEPT !.st = "expired", !.killed = TRUE,
                                                       !.dir = cleanup(r.dir)]]
           IN fl' = Settle(f, idx, ProcProbeTimeout)
  /\ UNCHANGED <<env, web, shims, watcher, ld, lk, fn, cachedOpenConfig, assigns, pc, stage, pool, trace, ret, trials, replay, q,
                 err, kc, td, sq>>

\* child.on("error"): clearTimeout(to); cleanup(); reject(err).
FlError ==
  /\ fl.phase = "probing"
  /\ fl.world.enoent
  /\ \E idx \in DOMAIN fl.runs :
        /\ fl.runs[idx].st = "running"
        /\ LET r == fl.runs[idx]
               f == [fl EXCEPT !.runs[idx] = [r EXCEPT !.st = "errored", !.dir = cleanup(r.dir)]]
           IN fl' = Settle(f, idx, ProcSpawnError)
  /\ UNCHANGED <<env, web, shims, watcher, ld, lk, fn, cachedOpenConfig, assigns, pc, stage, pool, trace, ret, trials, replay, q,
                 err, kc, td, sq>>

\* child.on("close"): clearTimeout(to); cleanup(); then resolve or reject, which
\* does nothing when the promise was settled by the timer or the error event.
FlClose ==
  /\ fl.phase \in {"probing", "over"}
  /\ \E idx \in DOMAIN fl.runs : \E left \in EngineLeaves :
        /\ fl.runs[idx].st \in {"running", "expired", "errored"}
        /\ ~(fl.world.enoent /\ fl.runs[idx].st = "running")
        /\ LET r == EngineWrote(fl.runs[idx], left)
               f == [fl EXCEPT !.runs[idx] = [r EXCEPT !.st = "closed", !.dir = cleanup(r.dir)]]
           IN IF fl.runs[idx].st = "running"
              THEN fl' = Settle(f, idx, CloseProcs(fl.world, fl.p.tasks[idx]))
              ELSE fl' = f
  /\ UNCHANGED <<env, web, shims, watcher, ld, lk, fn, cachedOpenConfig, assigns, pc, stage, pool, trace, ret, trials, replay, q,
                 err, kc, td, sq>>

\* Promise.all resolves: probe() returns its winner.
FlStageOver ==
  /\ fl.phase = "probing"
  /\ fl.p.inflight = {}
  /\ fl' = [fl EXCEPT !.phase = "over"]
  /\ UNCHANGED <<env, web, shims, watcher, ld, lk, fn, cachedOpenConfig, assigns, pc, stage, pool, trace, ret, trials, replay, q,
                 err, kc, td, sq>>

\* ------------------------------- runSqlcipherQuery with its temporary files
\* The vault as one query finds it: the companions beside it, the file at which
\* the copy fails, and whether the configuration is a transparent one whose key
\* decrypts the file ("no" for a pragma configuration).
QueryWorld(companions, copyFails, transparent) ==
  [companions |-> companions, copyFails |-> copyFails, transparent |-> transparent]

SqReady(world) ==
  [phase |-> "ready", world |-> world, attempt |-> 0, dir |-> NoDir, targets |-> <<>>]

\* What spawnSync comes back with for one attempt.
SyncProcs == {ProcOkRows, ProcOkNoRows, ProcNotADb, ProcLocked, ProcTimeout}

\* mkdtempSync(join(tmpdir(), "raybridge-db-")) on entry.
SqStart ==
  /\ sq.phase = "ready"
  /\ sq' = [sq EXCEPT !.phase = "running", !.attempt = 1, !.dir = mkdtempSync]
  /\ UNCHANGED <<env, web, shims, watcher, ld, lk, fn, cachedOpenConfig, assigns, pc, stage, pool, trace, ret, trials, replay, q,
                 err, kc, fl, td>>

\* if (openConfig.transparentDecryptKey): write the plaintext, run the engine
\* on it, cleanup(); or cleanup() and return [] when the key does not decrypt.
SqTransparent ==
  /\ sq.phase = "running"
  /\ sq.world.transparent # "no"
  /\ \E left \in EngineLeaves :
        sq' = IF sq.world.transparent = "decrypts"
              THEN [sq EXCEPT !.phase = "returned",
                              !.dir = cleanup([@ EXCEPT !.files = @ \cup {""} \cup left]),
                              !.targets = Append(@, "tmp")]
              ELSE [sq EXCEPT !.phase = "returned", !.dir = cleanup(@)]
  /\ UNCHANGED <<env, web, shims, watcher, ld, lk, fn, cachedOpenConfig, assigns, pc, stage, pool, trace, ret, trials, replay, q,
                 err, kc, fl, td>>

\* One iteration of the retry loop: the copy, the engine on targetDb, then
\* cleanup() and return, sleep and continue, or cleanup() and throw.
SqAttempt ==
  /\ sq.phase = "running"
  /\ sq.world.transparent = "no"
  /\ sq.attempt <= DefaultRetries
  /\ \E proc \in SyncProcs : \E left \in EngineLeaves :
        LET c == CopyVault(sq.world, sq.dir)
            wrote == EngineWrote([dir |-> c.dir, target |-> c.target], left).dir
            a == QueryAttempt(proc)
            ran == [sq EXCEPT !.dir = wrote, !.targets = Append(@, c.target)]
        IN sq' = IF ~a.threw THEN [ran EXCEPT !.phase = "returned", !.dir = cleanup(wrote)]
                 ELSE IF Retries(isTransient(a.parts), sq.attempt, DefaultRetries)
                 THEN [ran EXCEPT !.attempt = @ + 1]
                 ELSE [ran EXCEPT !.phase = "threw", !.dir = cleanup(wrote)]
  /\ UNCHANGED <<env, web, shims, watcher, ld, lk, fn, cachedOpenConfig, assigns, pc, stage, pool, trace, ret, trials, replay, q,
                 err, kc, fl, td>>

\* ---------------------- tryTransparentDecryptOpen with its temporary files
\* keys tells, for each key of keysToTry, whether its plaintext carries the
\* signature; dirs holds, key by key, the directory made for it as it is left.
TdReady(keys) == [phase |-> "ready", keys |-> keys, i |-> 1, dirs |-> <<>>, found |-> 0]

\* What the try block around writeFileSync and spawnSync does for one key.
DecryptSteps == {"accepted", "refused", "throws"}

\* One iteration of for (const { key } of keysToTry).
TdKey ==
  /\ td.phase = "ready"
  /\ td.i <= Len(td.keys)
  /\ \E step \in DecryptSteps : \E left \in EngineLeaves :
        LET plaintext == [mkdtempSync EXCEPT !.files = {""}]
            ran == [plaintext EXCEPT !.files = @ \cup (IF step = "throws" THEN {} ELSE left)]
        IN td' = IF ~td.keys[td.i]
                 THEN [td EXCEPT !.i = @ + 1, !.dirs = Append(@, NoDir)]
                 ELSE IF step = "accepted"
                 THEN [td EXCEPT !.phase = "returned", !.found = td.i,
                                 !.dirs = Append(@, DecryptCleanup(ran))]
                 ELSE [td EXCEPT !.i = @ + 1, !.dirs = Append(@, DecryptCleanup(ran))]
  /\ UNCHANGED <<env, web, shims, watcher, ld, lk, fn, cachedOpenConfig, assigns, pc, stage, pool, trace, ret, trials, replay, q,
                 err, kc, fl, sq>>

\* return null after the loop.
TdExhausted ==
  /\ td.phase = "ready"
  /\ td.i > Len(td.keys)
  /\ td' = [td EXCEPT !.phase = "returned"]
  /\ UNCHANGED <<env, web, shims, watcher, ld, lk, fn, cachedOpenConfig, assigns, pc, stage, pool, trace, ret, trials, replay, q,
                 err, kc, fl, sq>>

\* ------------------------------------------------------------ initial states
\* Engine-encrypted vaults whose first stage has more tasks than workers.
FileEnv(g) ==
  EnvRecord("win32", FALSE, TRUE, EngineFile, <<>>, MaxProbeKeys, g, IF g = 0 THEN {} ELSE {1},
            FALSE, FALSE, DefaultKeyFastLimit, 1)

\* The copy goes through or fails, with and without companions; some children
\* outlive the timeout; the engine cannot be spawned.
CopyWorlds ==
  {w \in {World(cs, cf, {}, FALSE, ProcNotADb) :
             cs \in {{}, {"-wal", "-shm"}}, cf \in CopyFailures} :
     w.copyFails \in {"none", ""} \cup w.companions}
SlowWorlds ==
  {World({"-wal", "-shm"}, "none", {2, PROBE_CONCURRENCY + 1}, FALSE, ProcNotADb),
   World({}, "", {1}, FALSE, ProcOkNoRows)}
DeadWorlds == {World({}, "none", {}, TRUE, ProcNotADb)}

FileStages ==
  ({FileEnv(2)} \X CopyWorlds)
    \cup ({FileEnv(g) : g \in {0, 2, MaxProbeKeys}} \X SlowWorlds)
    \cup ({FileEnv(0)} \X DeadWorlds)

\* The worlds of a synchronous query, and the keys of a decrypt-open.
QueryWorlds ==
  {w \in {QueryWorld(cs, cf, t) : cs \in {{}, {"-wal", "-shm"}}, cf \in CopyFailures,
                                   t \in {"no", "decrypts", "garbage"}} :
     /\ w.copyFails \in {"none", ""} \cup w.companions
     /\ w.transparent # "no" => w.copyFails = "none"}
KeysToTry == UNION {[1..n -> BOOLEAN] : n \in 0..MaxRawKeys}

\* One of: a probe stage, a synchronous query, a decrypt-open.
FileRuns ==
  {[fl |-> FlReady(s[2]), sq |-> SqIdle, td |-> TdIdle, env |-> s[1]] : s \in FileStages}
    \cup {[fl |-> FlIdle, sq |-> SqReady(w), td |-> TdIdle, env |-> FileEnv(0)] : w \in QueryWorlds}
    \cup {[fl |-> FlIdle, sq |-> SqIdle, td |-> TdReady(k), env |-> FileEnv(0)] : k \in KeysToTry}

InitFiles ==
  /\ web = WebIdle
  /\ shims = ShimsIdle
  /\ watcher = WatcherIdle
  /\ \E r \in FileRuns : env = r.env /\ fl = r.fl /\ sq = r.sq /\ td = r.td
  /\ cachedOpenConfig = NullConfig
  /\ assigns = 0
  /\ pc = [c \in Callers |-> "idle"]
  /\ stage = [c \in Callers |-> 0]
  /\ pool = [c \in Callers |-> NoPool]
  /\ trace = [c \in Callers |-> <<>>]
  /\ ret = [c \in Callers |-> NullConfig]
  /\ trials = [c \in Callers |-> <<>>]
  /\ replay = [c \in Callers |-> "none"]
  /\ q = QIdle
  /\ ld = LdIdle
  /\ lk = LkIdle
  /\ fn = FnIdle
  /\ err = [c \in Callers |-> "none"]
  /\ kc = KcIdle

NextFiles ==
  \/ FlProbe
  \/ FlTimeout
  \/ FlError
  \/ FlClose
  \/ FlStageOver
  \/ SqStart
  \/ SqTransparent
  \/ SqAttempt
  \/ TdKey
  \/ TdExhausted

SpecFiles == InitFiles /\ [][NextFiles]_vars

\* ------------------------------------------------------- the key candidates
\* Bytes are kept in chunks of 16; a chunk is one of these contents.  Strings
\* are byte sequences too, so a printable blob and its utf8 text are one value.
BinaryChunks == {"x1", "x2", "x3", "x4"}   \* bytes that are no printable text
HexChunks == {"hl", "HU"}                  \* 16 hex digits, lower or upper case
Base64Chunks == {"bb"}                     \* 16 base64 characters, not all hex digits
TextChunks == {"pp"}                       \* 16 printable characters, not all base64
WideChunks == {"ww"}                       \* 8 printable characters in UTF-16LE
ChunkBytes == 16

\* Values derived from bytes, as <<constructor, argument>>.
Raw(chunks) == <<"raw", chunks>>
RAYCAST_SALT == <<"salt", <<>>>>
Empty == Raw(<<>>)

IsRaw(t) == t[1] = "raw"

\* Length in bytes (for a string: in characters).
RECURSIVE ByteLen(_)
ByteLen(t) ==
  CASE t[1] = "raw" -> ChunkBytes * Len(t[2])
    [] t[1] = "hex" -> 2 * ByteLen(t[2])
    [] t[1] = "sha" -> 64
    [] t[1] = "b64" -> 4 * ((ByteLen(t[2]) + 2) \div 3)
    [] t[1] = "unb64" -> (3 * ByteLen(t[2])) \div 4
    [] t[1] = "utf16" -> ByteLen(t[2]) \div 2
    [] t[1] = "sub" -> t[2][3] - t[2][2]
    [] t[1] = "rawcolon" -> 4 + ByteLen(t[2])
    [] t[1] = "salt" -> 32
    [] OTHER -> 0

\* buf.toString("hex")
ToHex(t) == <<"hex", t>>
\* buf.toString("base64")
ToBase64(t) == <<"b64", t>>

\* buf.subarray(from, to); the whole buffer when the range covers it.
Subarray(t, from, to) ==
  IF from = 0 /\ to = ByteLen(t) THEN t
  ELSE IF IsRaw(t) THEN Raw(SubSeq(t[2], (from \div ChunkBytes) + 1, to \div ChunkBytes))
  ELSE <<"sub", <<t, from, to>>>>

\* s.toLowerCase(): hex digits in upper case become lower case.
LowerChunk(c) == IF c = "HU" THEN "hl" ELSE c
ToLowerCase(t) == IF IsRaw(t) THEN Raw([i \in 1..Len(t[2]) |-> LowerChunk(t[2][i])]) ELSE t

\* sha256Hex(a + b) and sha256HexBytes(a, b): the digest of the concatenation.
NotEmpty(t) == t # Empty
Sha256(parts) == <<"sha", SelectSeq(parts, NotEmpty)>>

\* trimNulls(buf.toString("utf8")) when isPrintableAscii holds of it ("" else).
IsPrintableAscii(t) ==
  /\ IsRaw(t) /\ t # Empty
  /\ \A i \in 1..Len(t[2]) : t[2][i] \in HexChunks \cup Base64Chunks \cup TextChunks

\* trimNulls(buf.toString("utf16le")) when isPrintableAscii holds of it.
IsPrintableUtf16(t) == IsRaw(t) /\ t # Empty /\ \A i \in 1..Len(t[2]) : t[2][i] \in WideChunks
Utf16(t) == <<"utf16", t>>

\* /^[0-9a-fA-F]+$/.test(s) && s.length % 2 === 0
IsEvenHex(t) == IsRaw(t) /\ t # Empty /\ \A i \in 1..Len(t[2]) : t[2][i] \in HexChunks

\* tryDecodeBase64: the decoded bytes, or Empty for null.
LooksB64(t) == IsRaw(t) /\ t # Empty /\ \A i \in 1..Len(t[2]) : t[2][i] \in HexChunks \cup Base64Chunks
tryDecodeBase64(t) ==
  IF LooksB64(t) /\ ByteLen(t) % 4 = 0 /\ (3 * ByteLen(t)) \div 4 > 0 THEN <<"unb64", t>> ELSE Empty

\* sqlStringLiteral(value); x'<hex>'; "x'<hex>'"
sqlStringLiteral(t) == <<"lit", t>>
BlobLiteral(h) == <<"blob", h>>
StringX(h) == <<"strx", h>>
RawColon(h) == <<"rawcolon", h>>

\* A candidate; its label is kept as the segments between the colons.
Candidate(label, keyPragma, keyExpr) ==
  [label |-> label, keyPragma |-> keyPragma, keyExpr |-> keyExpr]

addKey(label, passphrase) == <<Candidate(label, "key", sqlStringLiteral(passphrase))>>
addHexkey(label, hex) == <<Candidate(label, "hexkey", sqlStringLiteral(ToLowerCase(hex)))>>

addRawKeyHex(label, hex) ==
  LET h == ToLowerCase(hex)
  IN IF ByteLen(h) = 0 THEN <<>>
     ELSE <<Candidate(label \o <<"key(raw-blob-literal)">>, "key", BlobLiteral(h)),
            Candidate(label \o <<"key(raw-string-x)">>, "key", StringX(h))>>
          \o addKey(label \o <<"key(raw-colon)">>, RawColon(h))

addFromHex(label, hex) ==
  LET h == ToLowerCase(hex)
  IN IF ByteLen(h) = 0 THEN <<>>
     ELSE addKey(label \o <<"key(passphrase-hex)">>, h)
          \o addKey(label \o <<"key(sha256(hex+salt))">>, Sha256(<<h, RAYCAST_SALT>>))
          \o addKey(label \o <<"key(sha256(salt+hex))">>, Sha256(<<RAYCAST_SALT, h>>))
          \o addKey(label \o <<"key(sha256(hex))">>, Sha256(<<h>>))
          \o addHexkey(label \o <<"hexkey(binary-passphrase)">>, h)
          \o (IF ByteLen(h) = 64 \/ ByteLen(h) = 96 THEN addRawKeyHex(label, h) ELSE <<>>)
          \o (IF ByteLen(h) = 128
              THEN addHexkey(label \o <<"hexkey(64-byte)">>, h)
                   \o addRawKeyHex(label \o <<"64-byte">>, h)
              ELSE <<>>)

\* label.includes(needle), on the segments of a label.
SegmentsWith(needle) ==
  CASE needle = "raw" -> {"key(raw-blob-literal)", "key(raw-string-x)", "key(raw-colon)", "raw-blob-literal", "raw-string-x"}
    [] needle = "hexkey" -> {"hexkey(binary-passphrase)", "hexkey(64-byte)"}
    [] needle = ":utf8" -> {"utf8", "utf8-hex"}
    [] needle = "utf8-hex" -> {"utf8-hex"}
    [] OTHER -> {needle}
LabelIncludes(label, needle) ==
  IF needle = ":bytes:base64"
  THEN \E i \in 2..(Len(label) - 1) : label[i] = "bytes" /\ label[i + 1] = "base64"
  ELSE \E i \in (IF needle = ":utf8" THEN 2 ELSE 1)..Len(label) : label[i] \in SegmentsWith(needle)

EnvLabel == <<"env", "RAYBRIDGE_RAYCAST_DB_KEY">>

\* The override variable: unset, blank, or text; its text is x'<hex>',
\* "x'<hex>'" or anything else.
EnvUnset == [kind |-> "unset", body |-> Empty]
EnvGiven(e) == e.kind \notin {"unset", "blank"}
EnvText(e) ==
  CASE e.kind = "xlit" -> <<"x'", e.body>>
    [] e.kind = "strx" -> <<"\"x'", e.body>>
    [] OTHER -> e.body

\* What `security find-generic-password` gives: the key, or a failed command.
SecurityFails == <<"fails", <<>>>>

getMacKeyCandidates(e, keychain) ==
  IF EnvGiven(e)
  THEN [threw |-> FALSE, list |-> <<Candidate(EnvLabel, "key", sqlStringLiteral(EnvText(e)))>>]
  ELSE IF keychain = SecurityFails
  THEN [threw |-> TRUE, list |-> <<>>]
  ELSE [threw |-> FALSE,
        list |-> <<Candidate(<<"mac", "keychain sha256(keyHex+salt)">>, "key",
                             sqlStringLiteral(Sha256(<<keychain, RAYCAST_SALT>>)))>>]

WINDOWS_CREDENTIAL_TARGETS ==
  << "Raycast-Production/BackendDBKey", "LegacyGeneric:target=Raycast-Production/BackendDBKey",
     "Raycast-Canary/BackendDBKey", "LegacyGeneric:target=Raycast-Canary/BackendDBKey",
     "canaryWindowsEncKey", "LegacyGeneric:target=canaryWindowsEncKey",
     "canaryWindowsKey", "LegacyGeneric:target=canaryWindowsKey",
     "canaryWindowsHmakKey", "LegacyGeneric:target=canaryWindowsHmakKey" >>
getWindowsCredentialTargets == SubSeq(WINDOWS_CREDENTIAL_TARGETS, 1, NTargets)

\* A store entry (the last_key file, a credential) is absent or holds bytes.
Absent == <<"absent", <<>>>>
readWindowsCredentialBlob(store, i) == IF store[i] = Absent \/ store[i] = Empty THEN Absent ELSE store[i]

EnvCandidates(e) ==
  IF ~EnvGiven(e) THEN <<>>
  ELSE IF e.kind = "xlit"
  THEN <<Candidate(EnvLabel \o <<"raw-blob-literal">>, "key", BlobLiteral(e.body)),
         Candidate(EnvLabel \o <<"raw-string-x">>, "key", StringX(e.body))>>
  ELSE IF e.kind = "strx"
  THEN <<Candidate(EnvLabel \o <<"raw-string-x">>, "key", StringX(e.body))>>
  ELSE IF IsEvenHex(e.body)
  THEN addKey(EnvLabel \o <<"hex(passphrase)">>, e.body) \o addFromHex(EnvLabel \o <<"hex">>, e.body)
  ELSE addKey(EnvLabel, e.body)

FirstBytes(label, b, n, name) ==
  IF ByteLen(b) >= n THEN addFromHex(label \o <<name>>, ToHex(Subarray(b, 0, n))) ELSE <<>>

LastKeyCandidates(b) ==
  IF b = Absent THEN <<>>
  ELSE LET L == <<"last_key">>
           h == Sha256(<<b, RAYCAST_SALT>>)
       IN (IF IsPrintableAscii(b)
           THEN addKey(L \o <<"utf8">>, b)
                \o addKey(L \o <<"utf8", "sha256(+salt)">>, h)
                \o addFromHex(L \o <<"utf8", "sha256(+salt)">>, h)
                \o (IF IsEvenHex(b) THEN addFromHex(L \o <<"utf8-hex">>, b) ELSE <<>>)
           ELSE <<>>)
          \o addFromHex(L \o <<"bytes">>, ToHex(b))
          \o addKey(L \o <<"bytes", "sha256(bytes+salt)">>, Sha256(<<b, RAYCAST_SALT>>))
          \o addKey(L \o <<"bytes", "sha256(bytes)">>, Sha256(<<b>>))
          \o addKey(L \o <<"bytes", "sha256(salt+bytes)">>, Sha256(<<RAYCAST_SALT, b>>))
          \o FirstBytes(L \o <<"bytes">>, b, 32, "first32")
          \o FirstBytes(L \o <<"bytes">>, b, 48, "first48")
          \o (IF ByteLen(b) >= 64
              THEN addFromHex(L \o <<"bytes", "last32">>, ToHex(Subarray(b, 32, 64)))
              ELSE <<>>)
          \o (IF b # Empty
              THEN addKey(L \o <<"bytes", "base64">>, ToBase64(b))
                   \o addKey(L \o <<"bytes", "sha256(b64+salt)">>, Sha256(<<ToBase64(b), RAYCAST_SALT>>))
              ELSE <<>>)

ShaForms(label, name, parts) ==
  addKey(label \o <<name>>, Sha256(parts)) \o addFromHex(label \o <<name>>, Sha256(parts))

CredentialCandidates(target, blob) ==
  IF blob = Absent THEN <<>>
  ELSE LET C == <<"cred", target>>
           decoded == tryDecodeBase64(blob)
           D == C \o <<"utf8", "base64-decoded">>
       IN addFromHex(C \o <<"bytes">>, ToHex(blob))
          \o addKey(C \o <<"bytes", "sha256(bytes+salt)">>, Sha256(<<blob, RAYCAST_SALT>>))
          \o addKey(C \o <<"bytes", "sha256(bytes)">>, Sha256(<<blob>>))
          \o addKey(C \o <<"bytes", "sha256(salt+bytes)">>, Sha256(<<RAYCAST_SALT, blob>>))
          \o FirstBytes(C \o <<"bytes">>, blob, 32, "first32")
          \o FirstBytes(C \o <<"bytes">>, blob, 48, "first48")
          \o (IF IsPrintableAscii(blob)
              THEN addKey(C \o <<"utf8">>, blob)
                   \o ShaForms(C \o <<"utf8">>, "sha256(+salt)", <<blob, RAYCAST_SALT>>)
                   \o ShaForms(C \o <<"utf8">>, "sha256(salt+)", <<RAYCAST_SALT, blob>>)
                   \o ShaForms(C \o <<"utf8">>, "sha256(utf8)", <<blob>>)
                   \o (IF IsEvenHex(blob) THEN addFromHex(C \o <<"utf8-hex">>, blob) ELSE <<>>)
                   \o (IF decoded # Empty
                       THEN addFromHex(D, ToHex(decoded))
                            \o addKey(D \o <<"sha256(bytes+salt)">>, Sha256(<<decoded, RAYCAST_SALT>>))
                            \o FirstBytes(D, decoded, 32, "first32")
                            \o FirstBytes(D, decoded, 48, "first48")
                       ELSE <<>>)
              ELSE <<>>)
          \o (IF IsPrintableUtf16(blob)
              THEN addKey(C \o <<"utf16le">>, Utf16(blob))
                   \o addKey(C \o <<"utf16le", "sha256(+salt)">>, Sha256(<<Utf16(blob), RAYCAST_SALT>>))
                   \o addKey(C \o <<"utf16le", "sha256(salt+)">>, Sha256(<<RAYCAST_SALT, Utf16(blob)>>))
                   \o addKey(C \o <<"utf16le", "sha256(utf16)">>, Sha256(<<Utf16(blob)>>))
              ELSE <<>>)
          \o addKey(C \o <<"bytes", "base64">>, ToBase64(blob))
          \o addKey(C \o <<"bytes", "base64", "sha256(+salt)">>, Sha256(<<ToBase64(blob), RAYCAST_SALT>>))
          \o addKey(C \o <<"bytes", "base64", "sha256(salt+)">>, Sha256(<<RAYCAST_SALT, ToBase64(blob)>>))
          \o addKey(C \o <<"bytes", "base64", "sha256(b64)">>, Sha256(<<ToBase64(blob)>>))

RECURSIVE AllCredentialCandidates(_, _)
AllCredentialCandidates(store, i) ==
  IF i > Len(getWindowsCredentialTargets) THEN <<>>
  ELSE CredentialCandidates(getWindowsCredentialTargets[i], readWindowsCredentialBlob(store, i))
       \o AllCredentialCandidates(store, i + 1)

SameKey(a, b) == a.keyPragma = b.keyPragma /\ a.keyExpr = b.keyExpr

EveryPosition(cands) == 1..Len(cands)
\* candidates.filter(c => first time `${keyPragma}:${keyExpr}` is seen)
FirstSeen(cands) == {i \in 1..Len(cands) : \A j \in 1..(i - 1) : ~SameKey(cands[j], cands[i])}
\* The elements at the given positions, in their order.
AtPositions(cands, idx) ==
  [n \in 1..Cardinality(idx) |-> cands[CHOOSE i \in idx : Cardinality({j \in idx : j <= i}) = n]]
Deduped(cands) == AtPositions(cands, FirstSeen(cands))

isPriority(c) ==
  /\ \/ LabelIncludes(c.label, "first32")
     \/ LabelIncludes(c.label, "first48")
     \/ LabelIncludes(c.label, "last32")
     \/ LabelIncludes(c.label, "utf8-hex")
     \/ (c.label[1] = "cred" /\ (LabelIncludes(c.label, ":utf8") \/ LabelIncludes(c.label, ":bytes:base64")))
  /\ \/ LabelIncludes(c.label, "raw")
     \/ LabelIncludes(c.label, "hexkey")
     \/ LabelIncludes(c.label, ":utf8")
     \/ LabelIncludes(c.label, ":bytes:base64")
NotPriority(c) == ~isPriority(c)
PriorityFirst(cands) == SelectSeq(cands, isPriority) \o SelectSeq(cands, NotPriority)

Collected(e, lastKey, store) ==
  EnvCandidates(e) \o LastKeyCandidates(lastKey) \o AllCredentialCandidates(store, 1)

getWindowsKeyCandidates(e, lastKey, store) ==
  [threw |-> FALSE, list |-> PriorityFirst(Deduped(Collected(e, lastKey, store)))]

getKeyCandidatesFrom(k) ==
  IF k.platform = "win32" THEN getWindowsKeyCandidates(k.envKey, k.lastKey, k.store)
  ELSE getMacKeyCandidates(k.envKey, k.keychain)

\* ---- getKeyCandidates applied to what the machine holds
BinaryNames == <<"x1", "x2", "x3", "x4">>
BinaryBlob(n) == Raw([i \in 1..n |-> BinaryNames[((i - 1) % Len(BinaryNames)) + 1]])
UniformBlob(chunk, n) == Raw([i \in 1..n |-> chunk])
\* 32 bytes twice over
RepeatedHalves == Raw(<<"x1", "x2", "x1", "x2">>)
MixedCaseHex == Raw(<<"HU", "hl", "hl", "hl">>)

Blobs ==
  {BinaryBlob(n) : n \in 0..MaxChunks}
    \cup {UniformBlob(c, n) : c \in HexChunks \cup Base64Chunks \cup TextChunks \cup WideChunks, n \in 1..MaxChunks}
    \cup {RepeatedHalves, MixedCaseHex}

CredentialBlobs ==
  {Absent, Empty, BinaryBlob(2), BinaryBlob(4), RepeatedHalves,
   UniformBlob("hl", MaxChunks), UniformBlob("bb", 3)}

EnvKeys ==
  {EnvUnset, [kind |-> "blank", body |-> Empty]}
    \cup {[kind |-> k, body |-> b] : k \in {"xlit", "strx", "text"}, b \in {UniformBlob("hl", 4), MixedCaseHex}}
    \cup {[kind |-> "text", body |-> b] : b \in {UniformBlob("hl", 2), UniformBlob("pp", 1), UniformBlob("bb", 1)}}

NoStore == [i \in 1..NTargets |-> Absent]
KeyInput(platform, envKey, lastKey, store, keychain) ==
  [platform |-> platform, envKey |-> envKey, lastKey |-> lastKey, store |-> store, keychain |-> keychain]

WindowsInputs ==
  {KeyInput("win32", EnvUnset, b, NoStore, SecurityFails) : b \in Blobs \cup {Absent}}
    \cup {KeyInput("win32", EnvUnset, Absent, s, SecurityFails) : s \in [1..NTargets -> CredentialBlobs]}
    \cup {KeyInput("win32", e, b, [NoStore EXCEPT ![1] = c], SecurityFails) :
            e \in EnvKeys, b \in {Absent, BinaryBlob(2), UniformBlob("hl", 4)}, c \in {Absent, BinaryBlob(4)}}
MacInputs ==
  {KeyInput("darwin", e, Absent, NoStore, k) :
     e \in EnvKeys, k \in {SecurityFails, UniformBlob("hl", 2), UniformBlob("hl", 4)}}

NoResult == [threw |-> FALSE, list |-> <<>>]
\* found records what discovery pushed, in order, before the list was finished.
KcReady(k) == [phase |-> "ready", in |-> k, out |-> NoResult, found |-> <<>>]

KcWindows ==
  /\ kc.phase = "ready" /\ kc.in.platform = "win32"
  /\ kc' = [kc EXCEPT !.phase = "done", !.out = getKeyCandidatesFrom(kc.in),
                      !.found = Collected(kc.in.envKey, kc.in.lastKey, kc.in.store)]
  /\ UNCHANGED <<err, fl, td, sq, env, web, shims, watcher, ld, lk, fn, cachedOpenConfig, assigns, pc, stage, pool, trace, ret, trials, replay, q>>

KcMac ==
  /\ kc.phase = "ready" /\ kc.in.platform # "win32"
  /\ kc' = [kc EXCEPT !.phase = "done", !.out = getKeyCandidatesFrom(kc.in),
                      !.found = getKeyCandidatesFrom(kc.in).list]
  /\ UNCHANGED <<err, fl, td, sq, env, web, shims, watcher, ld, lk, fn, cachedOpenConfig, assigns, pc, stage, pool, trace, ret, trials, replay, q>>

InitKeys ==
  /\ web = WebIdle
  /\ shims = ShimsIdle
  /\ watcher = WatcherIdle
  /\ kc \in {KcReady(k) : k \in WindowsInputs \cup MacInputs}
  /\ err = [c \in Callers |-> "none"]
  /\ fl = FlIdle
  /\ td = TdIdle
  /\ sq = SqIdle
  /\ env = FileEnv(0)
  /\ cachedOpenConfig = NullConfig
  /\ assigns = 0
  /\ pc = [c \in Callers |-> "idle"]
  /\ stage = [c \in Callers |-> 0]
  /\ pool = [c \in Callers |-> NoPool]
  /\ trace = [c \in Callers |-> <<>>]
  /\ ret = [c \in Callers |-> NullConfig]
  /\ trials = [c \in Callers |-> <<>>]
  /\ replay = [c \in Callers |-> "none"]
  /\ q = QIdle
  /\ ld = LdIdle
  /\ lk = LkIdle
  /\ fn = FnIdle

NextKeys ==
  \/ KcWindows
  \/ KcMac

SpecKeys == InitKeys /\ [][NextKeys]_vars

\* ================================================================ the loaders
\* loadRaycastTokens and loadRaycastPreferences (src/src/auth.ts),
\* loadRaycastAuthData (src/unnamed/part_003) and what they print.
\*
\* A text is a sequence of segments: "plain" words, a "bearer" header with its
\* token, a "field" ("accessToken":"..." and the other named JSON fields), a
\* "param" (?token=... in a URL) and a "bare" secret that stands on its own
\* (a key expression, a credential) with no field name around it.
Segments == {"plain", "bearer", "field", "param", "bare"}

redactSegment(s) ==
  CASE s = "bearer" -> "bearerRedacted"
    [] s = "field" -> "fieldRedacted"
    [] s = "param" -> "paramRedacted"
    [] OTHER -> s

redactSecrets(msg) ==
  IF msg = <<>> THEN msg ELSE [i \in 1..Len(msg) |-> redactSegment(msg[i])]

\* What the engine or the dump script may have printed before it failed.
ErrTexts == {<<>>, <<"plain">>, <<"plain", "field">>, <<"bare">>}

\* An Error with the stdout and stderr runSqlcipherQuery attaches to it.
EngineError(out, errText) == [message |-> <<"plain">>, stdout |-> out, stderr |-> errText]
PlainError == EngineError(<<>>, <<>>)

\* console.error(prefix, err): the inspected error shows its message and its
\* own properties.
Inspect(e) == e.message \o e.stderr \o e.stdout

\* One console.error call: what was to be said and what was printed.
Emitted(site, raw, line) == [site |-> site, raw |-> raw, line |-> line]
consoleError(logs, site, text) == Append(logs, Emitted(site, text, text))

\* A returned map is <<"map", n>> with n entries; null is <<"null">>.
EmptyMap == <<"map", 0>>
Null == <<"null">>
MaxEntries == 2

\* loadRaycastDataViaWindowsBackend: the dump, or null, with what it printed.
\* outcome names what the call met; text is the dump script's output.
BackendOutcomes ==
  {"noKey", "noBackend", "noScript", "dumpFailed", "emptyStdout", "nonJson", "dump"}

loadRaycastDataViaWindowsBackend(outcome, text, n, warned, logs) ==
  CASE outcome = "noKey" ->
         [dumped |-> Null, warned |-> TRUE,
          logs |-> IF warned THEN logs ELSE consoleError(logs, "backendKey", <<"plain">>)]
    [] outcome = "noBackend" -> [dumped |-> Null, warned |-> warned, logs |-> logs]
    [] outcome = "noScript" ->
         [dumped |-> Null, warned |-> warned,
          logs |-> consoleError(logs, "dumpScript", <<"plain">>)]
    [] outcome = "dumpFailed" ->
         [dumped |-> Null, warned |-> warned,
          logs |-> IF text # <<>> THEN consoleError(logs, "dumpFailed", <<"plain">> \o text)
                   ELSE logs]
    [] outcome = "emptyStdout" -> [dumped |-> Null, warned |-> warned, logs |-> logs]
    [] outcome = "nonJson" ->
         [dumped |-> Null, warned |-> warned,
          logs |-> consoleError(logs, "nonJson", <<"plain">>)]
    [] OTHER -> [dumped |-> <<"map", n>>, warned |-> warned, logs |-> logs]

\* The failures a loader call can meet on its way.
BackendFailures == BackendOutcomes \ {"dump"}
OpenFailures == {"engine", "keys", "table", "query"}

Loaders == {"loadRaycastTokens", "loadRaycastPreferences", "loadRaycastAuthData"}
Platforms == {"win32", "darwin", "linux"}

LdCalled(loader, platform, warned) ==
  [phase |-> "called", loader |-> loader, platform |-> platform,
   warnedWindowsBackendKeyMissing |-> warned, logs |-> <<>>, met |-> {},
   threw |-> FALSE, given |-> Null]

\* return: the caller has its map.
LdReturn(l, map, logs, met) ==
  [l EXCEPT !.phase = "done", !.given = map, !.logs = logs, !.met = met]

\* The catch of loadRaycastTokens / loadRaycastPreferences: the caught error
\* is printed as it is and the empty map is returned.
LdCaught(l, e, met) ==
  LdReturn(l, EmptyMap, consoleError(l.logs, l.loader, <<"plain">> \o Inspect(e)), met)

\* The catch of loadRaycastAuthData: err.message is printed.
LdCaughtMessage(l, e, met) ==
  LdReturn(l, EmptyMap, consoleError(l.logs, l.loader, <<"plain">> \o e.message), met)

InAuthTs(l) ==
  l.phase # "idle" /\ l.loader \in {"loadRaycastTokens", "loadRaycastPreferences"}

\* A call begins.
LdCall ==
  /\ ld.phase = "idle"
  /\ \E loader \in Loaders, platform \in Platforms, warned \in BOOLEAN :
       ld' = LdCalled(loader, platform, warned)
  /\ UNCHANGED <<env, web, shims, watcher, cachedOpenConfig, assigns, pc, stage, pool, trace, ret, trials,
                 replay, q, err, kc, fl, td, sq, lk, fn>>

\* On Windows the backend dump is tried first; a dump with entries is returned,
\* anything else falls through to the vault files.
LdWindowsBackend ==
  /\ ld.phase = "called" /\ InAuthTs(ld) /\ ld.platform = "win32"
  /\ \E outcome \in BackendOutcomes, text \in ErrTexts, n \in 0..MaxEntries :
       LET r == loadRaycastDataViaWindowsBackend(outcome, text, n,
                  ld.warnedWindowsBackendKeyMissing, ld.logs)
           met == IF outcome = "dump" THEN {} ELSE {outcome}
       IN  /\ outcome # "dumpFailed" => text = <<>>
           /\ outcome # "dump" => n = 0
           /\ ld' = IF r.dumped # Null /\ r.dumped[2] > 0
                    THEN LdReturn(ld, r.dumped, r.logs, met)
                    ELSE [ld EXCEPT !.phase = "files", !.logs = r.logs, !.met = met,
                                    !.warnedWindowsBackendKeyMissing = r.warned]
  /\ UNCHANGED <<env, web, shims, watcher, cachedOpenConfig, assigns, pc, stage, pool, trace, ret, trials,
                 replay, q, err, kc, fl, td, sq, lk, fn>>

\* listRaycastDbFiles(dataDir).filter(existsSync): with no file the empty map
\* is returned at once.
LdFiles ==
  /\ InAuthTs(ld)
  /\ \/ ld.phase = "files"
     \/ ld.phase = "called" /\ ld.platform # "win32"
  /\ \E dbFiles \in 0..1 :
       ld' = IF dbFiles = 0
             THEN LdReturn(ld, EmptyMap, ld.logs, ld.met \cup {"noVaultFile"})
             ELSE [ld EXCEPT !.phase = "open"]
  /\ UNCHANGED <<env, web, shims, watcher, cachedOpenConfig, assigns, pc, stage, pool, trace, ret, trials,
                 replay, q, err, kc, fl, td, sq, lk, fn>>

\* getSqlcipherPath, getWorkingOpenConfig, getExtensionsDbPath and
\* runSqlcipherQuery: each may throw, and the throw lands in the catch.
LdOpen ==
  /\ ld.phase = "open"
  /\ \E failure \in OpenFailures \cup {"none"}, out \in ErrTexts, errText \in ErrTexts :
       /\ failure # "query" => out = <<>> /\ errText = <<>>
       /\ ld' = IF failure = "none" THEN [ld EXCEPT !.phase = "rows"]
                ELSE LdCaught(ld, EngineError(out, errText), ld.met \cup {failure})
  /\ UNCHANGED <<env, web, shims, watcher, cachedOpenConfig, assigns, pc, stage, pool, trace, ret, trials,
                 replay, q, err, kc, fl, td, sq, lk, fn>>

\* The rows are turned into the map.
LdRows ==
  /\ ld.phase = "rows"
  /\ \E n \in 0..MaxEntries : ld' = LdReturn(ld, <<"map", n>>, ld.logs, ld.met)
  /\ UNCHANGED <<env, web, shims, watcher, cachedOpenConfig, assigns, pc, stage, pool, trace, ret, trials,
                 replay, q, err, kc, fl, td, sq, lk, fn>>

\* loadRaycastAuthData: the Windows backend, the macOS engine, or nothing.
AuthDataOutcomes == {"data", "noBackend", "noVaultFile", "throws", "unsupported"}

LdAuthData ==
  /\ ld.phase = "called" /\ ld.loader = "loadRaycastAuthData"
  /\ \E outcome \in AuthDataOutcomes, n \in 0..MaxEntries, text \in ErrTexts, warned \in BOOLEAN :
       LET keyLogs == IF warned /\ ~ld.warnedWindowsBackendKeyMissing
                      THEN consoleError(ld.logs, "backendKey", <<"plain">>) ELSE ld.logs
           e == [message |-> <<"plain">> \o text, stdout |-> <<>>, stderr |-> <<>>]
       IN  /\ outcome # "data" => n = 0
           /\ outcome # "throws" => text = <<>>
           /\ ld.platform # "win32" => ~warned
           /\ CASE ld.platform = "win32" -> outcome \in {"data", "noBackend", "throws"}
                [] ld.platform = "darwin" -> outcome \in {"data", "noVaultFile", "throws"}
                [] OTHER -> outcome = "unsupported"
           /\ ld' = CASE outcome = "data" -> LdReturn(ld, <<"map", n>>, keyLogs, {})
                      [] outcome = "throws" ->
                           LdCaughtMessage([ld EXCEPT !.logs = keyLogs], e, {"throws"})
                      [] OTHER -> LdReturn(ld, EmptyMap, keyLogs, {outcome})
  /\ UNCHANGED <<env, web, shims, watcher, cachedOpenConfig, assigns, pc, stage, pool, trace, ret, trials,
                 replay, q, err, kc, fl, td, sq, lk, fn>>

\* The CallTool handler of index.ts: a failed tool's message is redacted and
\* then printed.
CallToolError ==
  /\ ld.phase = "idle"
  /\ \E text \in ErrTexts \cup {<<"bearer">>, <<"plain", "param">>} :
       ld' = [LdCalled("callTool", "any", FALSE) EXCEPT
                !.phase = "done", !.met = {"toolError"},
                !.logs = <<Emitted("callTool", <<"plain">> \o text,
                                   <<"plain">> \o redactSecrets(text))>>]
  /\ UNCHANGED <<env, web, shims, watcher, cachedOpenConfig, assigns, pc, stage, pool, trace, ret, trials,
                 replay, q, err, kc, fl, td, sq, lk, fn>>

\* Everything of the key discovery at rest.
AtRest ==
  /\ env = FileEnv(0)
  /\ cachedOpenConfig = NullConfig
  /\ assigns = 0
  /\ pc = [c \in Callers |-> "idle"]
  /\ stage = [c \in Callers |-> 0]
  /\ pool = [c \in Callers |-> NoPool]
  /\ trace = [c \in Callers |-> <<>>]
  /\ ret = [c \in Callers |-> NullConfig]
  /\ trials = [c \in Callers |-> <<>>]
  /\ replay = [c \in Callers |-> "none"]
  /\ q = QIdle
  /\ err = [c \in Callers |-> "none"]
  /\ kc = KcIdle
  /\ fl = FlIdle
  /\ td = TdIdle
  /\ sq = SqIdle

InitLoad ==
  /\ web = WebIdle
  /\ shims = ShimsIdle
  /\ watcher = WatcherIdle
  /\ AtRest
  /\ ld = LdIdle
  /\ lk = LkIdle
  /\ fn = FnIdle

NextLoad ==
  \/ LdCall
  \/ LdWindowsBackend
  \/ LdFiles
  \/ LdOpen
  \/ LdRows
  \/ LdAuthData
  \/ CallToolError

SpecLoad == InitLoad /\ [][NextLoad]_vars

\* ======================================================= rows and payloads
\* auth-normalize.ts, and the row loops of loadRaycastTokens and
\* loadRaycastPreferences in auth.ts.
\*
\* A JSON value is a tagged tuple; an object is the sequence of its
\* <<key, value>> pairs in the order they were written, keys being distinct.
\* A Map or a Record the code fills is such a sequence too, in insertion order.
MaxArray == 2
MaxRows == 2

Undefined == <<"undefined">>
JBool(b) == <<"bool", b>>
JNum(n) == <<"num", n>>
JStr(s) == <<"str", s>>
JArr(a) == <<"arr", a>>
JObj(pairs) == <<"obj", pairs>>

\* A string field of a row: the text of a JSON value, a text that is no JSON,
\* white space only, or the empty string.
TextOf(v) == <<"text", "json", v>>
BadJson == <<"text", "bad">>
BlankText == <<"text", "blank">>
EmptyText == <<"text", "empty">>

Some(x) == <<"some", x>>

\* !v
Falsy(v) ==
  v \in {Undefined, Null, JBool(FALSE), JNum(0), JStr(""), EmptyText}

\* typeof v === "object", null included.
TypeofObject(v) == v[1] \in {"obj", "arr", "null"}

IsArray(v) == v[1] = "arr"

\* The position of key k among the pairs, 0 when there is none.
KeyPos(pairs, k) ==
  IF \E i \in 1..Len(pairs) : pairs[i][1] = k
  THEN CHOOSE i \in 1..Len(pairs) : pairs[i][1] = k
  ELSE 0

\* Object.prototype.hasOwnProperty.call(v, k)
HasOwn(v, k) == v[1] = "obj" /\ KeyPos(v[2], k) > 0

\* v?.[k]: undefined for null, undefined and values without the property.
Prop(v, k) == IF HasOwn(v, k) THEN v[2][KeyPos(v[2], k)][2] ELSE Undefined

\* map.set(k, x) and obj[k] = x: an existing key keeps its place.
Put(pairs, k, x) ==
  IF KeyPos(pairs, k) > 0
  THEN [pairs EXCEPT ![KeyPos(pairs, k)] = <<k, x>>]
  ELSE Append(pairs, <<k, x>>)

\* JSON.parse: the value, or a SyntaxError.  A value that is not a string is
\* turned into its text first, and parses to itself.
JSONParse(value) ==
  CASE value[1] = "text" /\ value[2] = "json" -> <<"ok", value[3]>>
    [] value[1] = "text" -> <<"throw">>
    [] value = Undefined -> <<"throw">>
    [] OTHER -> <<"ok", value>>

safeJsonParse(value) ==
  IF JSONParse(value)[1] = "ok" THEN JSONParse(value)[2] ELSE Null

\* The key a value becomes when it names a property.
ToPropertyKey(v) ==
  CASE v[1] = "str" -> v[2]
    [] v = JNum(5) -> "5"
    [] v = JBool(TRUE) -> "true"
    [] OTHER -> "[object]"

\* auth-normalize.ts ---------------------------------------------------------
\* A normalizeTokenSets that wraps an array like any other value.
WrapEveryPayload(value) ==
  IF Falsy(safeJsonParse(value)) THEN Null ELSE Some(<<safeJsonParse(value)>>)

normalizeTokenSets(value) ==
  LET parsed == safeJsonParse(value)
      sets == IF IsArray(parsed) THEN parsed[2] ELSE <<parsed>>
  IN  IF Falsy(parsed) THEN Null
      ELSE IF Len(sets) > 0 THEN Some(sets) ELSE Null

\* A PreferenceInto with which the first element of a name stays.
KeepFirstPreference(out, p) ==
  IF HasOwn(p, "name") /\ HasOwn(p, "value") /\ Prop(p, "name")[1] = "str"
     /\ Prop(p, "name")[2] # "" /\ KeyPos(out, Prop(p, "name")[2]) = 0
  THEN Append(out, <<Prop(p, "name")[2], Prop(p, "value")>>)
  ELSE out

\* One element of the preferences array put into out, or skipped.
PreferenceInto(out, p) ==
  LET name == Prop(p, "name")
  IN  IF Falsy(p) \/ ~TypeofObject(p) THEN out
      ELSE IF name[1] # "str" \/ name[2] = "" THEN out
      ELSE IF ~HasOwn(p, "value") THEN out
      ELSE Put(out, name[2], Prop(p, "value"))

RECURSIVE PreferencesFrom(_, _, _)
PreferencesFrom(elems, i, out) ==
  IF i > Len(elems) THEN out
  ELSE PreferencesFrom(elems, i + 1, PreferenceInto(out, elems[i]))

normalizePreferences(value) ==
  LET parsed == safeJsonParse(value)
      out == PreferencesFrom(parsed[2], 1, <<>>)
  IN  IF ~IsArray(parsed) THEN Null
      ELSE IF Len(out) > 0 THEN Some(out) ELSE Null

IsNonBlankString(v) == v[1] = "text" /\ v[2] \notin {"blank", "empty"}

\* One row put into the two maps, or skipped.
RowInto(acc, row) ==
  LET sets == normalizeTokenSets(row.tokenSets)
      p == normalizePreferences(row.preferences)
      tokens == IF IsNonBlankString(row.tokenSets) /\ sets # Null
                THEN Put(acc.tokens, row.name[2], sets[2]) ELSE acc.tokens
      prefs == IF IsNonBlankString(row.preferences) /\ p # Null
               THEN Put(acc.prefs, row.name[2], p[2]) ELSE acc.prefs
  IN  IF row.name[1] # "str" \/ row.name[2] = "" THEN acc
      ELSE [tokens |-> tokens, prefs |-> prefs]

\* A loop that gives up at the first row without a name or with a tokenSets
\* text that is no JSON.
RECURSIVE RowsUntilMalformed(_, _, _)
RowsUntilMalformed(rows, i, acc) ==
  IF i > Len(rows) THEN acc
  ELSE IF rows[i].name[1] # "str" \/ rows[i].tokenSets = BadJson THEN acc
  ELSE RowsUntilMalformed(rows, i + 1, RowInto(acc, rows[i]))

RECURSIVE RowsFrom(_, _, _)
RowsFrom(rows, i, acc) ==
  IF i > Len(rows) THEN acc ELSE RowsFrom(rows, i + 1, RowInto(acc, rows[i]))

EmptyAuthData == [tokens |-> <<>>, prefs |-> <<>>]

normalizeExtensionsRows(rows) == RowsFrom(rows, 1, EmptyAuthData)

\* auth.ts: the row loop of loadRaycastTokens -------------------------------
TokenRowInto(tokens, row) ==
  LET parsed == JSONParse(row.tokenSets)
      sets == IF IsArray(parsed[2]) THEN parsed[2][2] ELSE <<parsed[2]>>
  IN  IF Falsy(row.name) \/ Falsy(row.tokenSets) THEN tokens
      ELSE IF parsed[1] = "throw" THEN tokens
      ELSE Put(tokens, row.name, sets)

RECURSIVE TokenRowsFrom(_, _, _)
TokenRowsFrom(rows, i, tokens) ==
  IF i > Len(rows) THEN tokens
  ELSE TokenRowsFrom(rows, i + 1, TokenRowInto(tokens, rows[i]))

\* auth.ts: the row loop of loadRaycastPreferences ---------------------------
PrefInto(prefObj, pref) ==
  IF ~Falsy(Prop(pref, "name")) /\ Prop(pref, "value") # Undefined
  THEN Put(prefObj, ToPropertyKey(Prop(pref, "name")), Prop(pref, "value"))
  ELSE prefObj

RECURSIVE PrefObjFrom(_, _, _)
PrefObjFrom(elems, i, prefObj) ==
  IF i > Len(elems) THEN prefObj
  ELSE PrefObjFrom(elems, i + 1, PrefInto(prefObj, elems[i]))

PrefRowInto(prefs, row) ==
  LET parsed == JSONParse(row.preferences)
      prefObj == IF IsArray(parsed[2]) THEN PrefObjFrom(parsed[2][2], 1, <<>>) ELSE <<>>
  IN  IF Falsy(row.name) \/ Falsy(row.preferences) THEN prefs
      ELSE IF parsed[1] = "throw" THEN prefs
      ELSE IF Len(prefObj) > 0 THEN Put(prefs, ToPropertyKey(row.name), prefObj)
      ELSE prefs

RECURSIVE PrefRowsFrom(_, _, _)
PrefRowsFrom(rows, i, prefs) ==
  IF i > Len(rows) THEN prefs
  ELSE PrefRowsFrom(rows, i + 1, PrefRowInto(prefs, rows[i]))

\* The rows the functions are applied to --------------------------------------
Row(name, tokenSets, preferences) ==
  [name |-> name, tokenSets |-> tokenSets, preferences |-> preferences]

TokenSetOf(t) == JObj(<<<<"accessToken", JStr(t)>>>>)
Preference(name, value) == JObj(<<<<"name", name>>, <<"value", value>>>>)

\* What a tokenSets payload may hold once parsed.
TokenElements == {TokenSetOf("a"), TokenSetOf("b"), Null, JNum(5)}
TokenValues ==
  {Null, JBool(TRUE), JBool(FALSE), JNum(0), JNum(5), JStr(""), JStr("s"),
   TokenSetOf("a"), JObj(<<>>)}
    \cup {JArr(a) : a \in SeqsUpTo(TokenElements, MaxArray)}
TokenFields ==
  {TextOf(v) : v \in TokenValues} \cup {BadJson, BlankText, EmptyText, Undefined, JNum(5)}

\* What a preferences payload may hold once parsed.
PreferenceElements ==
  {Preference(JStr("foo"), JStr("bar")), Preference(JStr("foo"), JNum(1)),
   Preference(JStr("n"), Null), Preference(JStr(""), JNum(1)),
   Preference(JNum(5), JNum(1)), JObj(<<<<"name", JStr("foo")>>>>),
   Null, JNum(5), JArr(<<>>)}
PreferenceValues ==
  {Null, JNum(5), Preference(JStr("foo"), JStr("bar"))}
    \cup {JArr(a) : a \in SeqsUpTo(PreferenceElements, MaxArray)}
PreferenceFields ==
  {TextOf(v) : v \in PreferenceValues} \cup {BadJson, BlankText, EmptyText, Undefined}

RowNames == {Undefined, JStr(""), JStr("ext"), JStr("other")}

\* Rows that are put into lists of several.
ListedRows ==
  {Row(n, t, p) :
     n \in RowNames,
     t \in {Undefined, BadJson, TextOf(JArr(<<TokenSetOf("a"), TokenSetOf("b")>>))},
     p \in {Undefined, BadJson, TextOf(JArr(<<Preference(JStr("foo"), JStr("bar"))>>))}}

\* One row with any payload, and lists of several rows.
SingleRows ==
  {<<Row(n, t, Undefined)>> : n \in {JStr("ext"), JNum(5)}, t \in TokenFields}
    \cup {<<Row(n, Undefined, p)>> : n \in {JStr("ext"), JNum(5)}, p \in PreferenceFields}

FnReady(kind, input) ==
  [phase |-> "ready", kind |-> kind, input |-> input, name |-> "none"]
FnDone(f, name, output) ==
  [phase |-> "done", kind |-> f.kind, input |-> f.input, name |-> name,
   output |-> output]

FnNormalizeExtensionsRows ==
  /\ fn.phase = "ready" /\ fn.kind = "rows"
  /\ fn' = FnDone(fn, "normalizeExtensionsRows", normalizeExtensionsRows(fn.input))
  /\ UNCHANGED <<env, web, shims, watcher, cachedOpenConfig, assigns, pc, stage, pool, trace, ret, trials,
                 replay, q, err, kc, fl, td, sq, ld, lk>>

FnTokenRows ==
  /\ fn.phase = "ready" /\ fn.kind = "rows"
  /\ fn' = FnDone(fn, "loadRaycastTokens", TokenRowsFrom(fn.input, 1, <<>>))
  /\ UNCHANGED <<env, web, shims, watcher, cachedOpenConfig, assigns, pc, stage, pool, trace, ret, trials,
                 replay, q, err, kc, fl, td, sq, ld, lk>>

FnPreferenceRows ==
  /\ fn.phase = "ready" /\ fn.kind = "rows"
  /\ fn' = FnDone(fn, "loadRaycastPreferences", PrefRowsFrom(fn.input, 1, <<>>))
  /\ UNCHANGED <<env, web, shims, watcher, cachedOpenConfig, assigns, pc, stage, pool, trace, ret, trials,
                 replay, q, err, kc, fl, td, sq, ld, lk>>

\* The backend dump ----------------------------------------------------------
\* Object.entries: the pairs of an object, the indexed elements of an array.
IndexKey(i) == IF i = 1 THEN "0" ELSE IF i = 2 THEN "1" ELSE "2+"
Entries(v) ==
  IF v[1] = "obj" THEN v[2] ELSE [i \in 1..Len(v[2]) |-> <<IndexKey(i), v[2][i]>>]

\* normalizeBackendDump of auth-normalize.ts: one entry of parsed.tokens.
DumpTokenInto(tokens, pair) ==
  IF pair[1] = "" THEN tokens
  ELSE IF IsArray(pair[2]) THEN Put(tokens, pair[1], pair[2][2])
  ELSE IF ~Falsy(pair[2]) /\ TypeofObject(pair[2]) THEN Put(tokens, pair[1], <<pair[2]>>)
  ELSE tokens

\* loadRaycastDataViaWindowsBackend of auth.ts: one entry of parsed.tokens.
DumpTokenArrayInto(tokens, pair) ==
  IF pair[1] = "" THEN tokens
  ELSE IF IsArray(pair[2]) THEN Put(tokens, pair[1], pair[2][2])
  ELSE tokens

\* One entry of parsed.prefs, the same in both.
DumpPrefInto(prefs, pair) ==
  IF pair[1] = "" THEN prefs
  ELSE IF ~Falsy(pair[2]) /\ TypeofObject(pair[2]) /\ ~IsArray(pair[2])
       THEN Put(prefs, pair[1], pair[2][2])
  ELSE prefs

RECURSIVE DumpTokensFrom(_, _, _, _)
DumpTokensFrom(pairs, i, tokens, single) ==
  IF i > Len(pairs) THEN tokens
  ELSE DumpTokensFrom(pairs, i + 1,
         IF single THEN DumpTokenInto(tokens, pairs[i])
         ELSE DumpTokenArrayInto(tokens, pairs[i]), single)

RECURSIVE DumpPrefsFrom(_, _, _)
DumpPrefsFrom(pairs, i, prefs) ==
  IF i > Len(pairs) THEN prefs
  ELSE DumpPrefsFrom(pairs, i + 1, DumpPrefInto(prefs, pairs[i]))

\* p.tokens && typeof p.tokens === "object", and the same for p.prefs.
DumpMaps(parsed, single) ==
  LET t == Prop(parsed, "tokens")
      p == Prop(parsed, "prefs")
  IN  [tokens |-> IF ~Falsy(t) /\ TypeofObject(t)
                  THEN DumpTokensFrom(Entries(t), 1, <<>>, single) ELSE <<>>,
       prefs |-> IF ~Falsy(p) /\ TypeofObject(p)
                 THEN DumpPrefsFrom(Entries(p), 1, <<>>) ELSE <<>>]

normalizeBackendDump(parsed) ==
  IF Falsy(parsed) \/ ~TypeofObject(parsed) THEN EmptyAuthData ELSE DumpMaps(parsed, TRUE)

\* The same step inside loadRaycastDataViaWindowsBackend (auth.ts).
BackendDumpMaps(parsed) ==
  IF ~Falsy(parsed) /\ TypeofObject(parsed) THEN DumpMaps(parsed, FALSE) ELSE EmptyAuthData

DumpTokens ==
  {Null, JNum(5)}
    \cup {JObj(<<<<k, v>>>>) :
            k \in {"ext", ""},
            v \in {JArr(a) : a \in SeqsUpTo(TokenElements, MaxArray)}
                    \cup {TokenSetOf("a"), JNum(5), Null}}
DumpPrefs ==
  {Undefined, JObj(<<<<"ext", JObj(<<<<"foo", JStr("bar")>>>>)>>>>),
   JObj(<<<<"ext", JArr(<<>>)>>>>)}
Dumps ==
  {Null, JNum(5), JArr(<<>>)}
    \cup {JObj(<<<<"tokens", t>>, <<"prefs", p>>>>) : t \in DumpTokens, p \in DumpPrefs}

FnNormalizeBackendDump ==
  /\ fn.phase = "ready" /\ fn.kind = "dump"
  /\ fn' = FnDone(fn, "normalizeBackendDump", normalizeBackendDump(fn.input))
  /\ UNCHANGED <<env, web, shims, watcher, cachedOpenConfig, assigns, pc, stage, pool, trace, ret, trials,
                 replay, q, err, kc, fl, td, sq, ld, lk>>

FnBackendDump ==
  /\ fn.phase = "ready" /\ fn.kind = "dump"
  /\ fn' = FnDone(fn, "loadRaycastDataViaWindowsBackend", BackendDumpMaps(fn.input))
  /\ UNCHANGED <<env, web, shims, watcher, cachedOpenConfig, assigns, pc, stage, pool, trace, ret, trials,
                 replay, q, err, kc, fl, td, sq, ld, lk>>

\* The vault files of a directory -------------------------------------------
\* A file name is <<stem, ending>>: endsWith looks at the ending.
MaxListing == 3

FileNames ==
  {<<"main", ".db">>, <<"settings_v2", ".db">>, <<"settings", ".db">>,
   <<"raycast-enc", ".sqlite">>, <<"a", ".db">>, <<"b", ".sqlite3">>,
   <<"main.db", "-wal">>, <<"main.db", "-shm">>, <<"notes", ".txt">>}

preferred ==
  <<(<<"main", ".db">>), (<<"settings_v2", ".db">>), (<<"settings", ".db">>),
    (<<"raycast-enc", ".sqlite">>)>>

\* preferred.indexOf(basename(a)), from 0, and -1 when it is not there.
IndexOf(seq, x) ==
  IF \E i \in 1..Len(seq) : seq[i] = x
  THEN (CHOOSE i \in 1..Len(seq) : seq[i] = x) - 1
  ELSE -1

\* A rank that leaves indexOf's -1 as it is.
RankOfIndex(name) == IndexOf(preferred, name)

Rank(name) ==
  IF IndexOf(preferred, name) >= 0 THEN IndexOf(preferred, name) ELSE Len(preferred) + 1

\* Array.prototype.sort with a comparator that subtracts keys: the sort is
\* stable, so x goes behind everything whose key is not larger.
InsertBy(sorted, x, Key(_)) ==
  LET before == Cardinality({i \in 1..Len(sorted) : Key(sorted[i]) <= Key(x)})
  IN  SubSeq(sorted, 1, before) \o <<x>> \o SubSeq(sorted, before + 1, Len(sorted))

RECURSIVE SortByRank(_, _, _)
SortByRank(files, i, sorted) ==
  IF i > Len(files) THEN sorted
  ELSE SortByRank(files, i + 1, InsertBy(sorted, files[i], Rank))

IsDbName(name) ==
  /\ name[2] \notin {"-wal", "-shm"}
  /\ name[2] \in {".db", ".sqlite", ".sqlite3"}

\* entries is Some(listing), or null when readdirSync throws.
listRaycastDbFiles(platform, entries) ==
  IF platform = "darwin" THEN <<(<<"raycast-enc", ".sqlite">>)>>
  ELSE IF entries = Null THEN <<>>
  ELSE SortByRank(SelectSeq(entries[2], IsDbName), 1, <<>>)

\* No two elements of s are the same.
Distinct(s) == \A i, j \in 1..Len(s) : i # j => s[i] # s[j]

FnListRaycastDbFiles ==
  /\ fn.phase = "ready" /\ fn.kind = "listing"
  /\ fn' = FnDone(fn, "listRaycastDbFiles",
                  listRaycastDbFiles(fn.input.platform, fn.input.entries))
  /\ UNCHANGED <<env, web, shims, watcher, cachedOpenConfig, assigns, pc, stage, pool, trace, ret, trials,
                 replay, q, err, kc, fl, td, sq, ld, lk>>

\* The cached backend versions ----------------------------------------------
\* The prune at the end of a fresh copy in ensureRaycastBackendCopy.
MaxVersions == 3
MaxMtime == 3
MaxKeep == 3

\* RAYBRIDGE_RAYCAST_BACKEND_CACHE_KEEP: not set, empty, the text of a number,
\* or a text that is no number.
KeepValues == {<<"unset">>, <<"empty">>, <<"nan">>} \cup {JNum(n) : n \in -1..MaxKeep}

IsNaN(v) == v = <<"nan">>

\* Math.max(1, Number(env || "2")); NaN stays NaN and is not asked for here.
keepN(v) == IF v[1] = "num" THEN Max(1, v[2]) ELSE Max(1, 2)

\* A slice that starts at keepN.
SliceFromKeepN(v) == IF IsNaN(v) THEN 0 ELSE keepN(v)

\* versions.slice(Math.max(0, keepN - 1)): where the removed ones begin,
\* from 0; slice(NaN) begins at 0.
SliceStart(v) == IF IsNaN(v) THEN 0 ELSE Max(0, keepN(v) - 1)

DirEntry(name, dir, mtime) == [name |-> name, dir |-> dir, m |-> mtime]
ActiveVersion == DirEntry(<<"v", 0>>, TRUE, MaxMtime)
LockFile == DirEntry(<<"v", 0, ".copy.lock">>, FALSE, MaxMtime)

IsOtherVersion(d) == d.dir /\ d.name # ActiveVersion.name

\* .sort((a, b) => b.m - a.m)
NewestFirst(d) == 0 - d.m

RECURSIVE SortNewestFirst(_, _, _)
SortNewestFirst(dirs, i, sorted) ==
  IF i > Len(dirs) THEN sorted
  ELSE SortNewestFirst(dirs, i + 1, InsertBy(sorted, dirs[i], NewestFirst))

\* The prune: the versions removed, and what the cache directory then holds.
Prune(keep, entries) ==
  LET versions == SortNewestFirst(SelectSeq(entries, IsOtherVersion), 1, <<>>)
      removed == SubSeq(versions, SliceStart(keep) + 1, Len(versions))
      gone == {removed[i].name : i \in 1..Len(removed)}
  IN  [removed |-> removed,
       left |-> SelectSeq(entries, LAMBDA d : d.name \notin gone)]

OtherVersions ==
  {DirEntry(<<"v", i>>, TRUE, t) : i \in 1..MaxVersions, t \in 1..MaxMtime}

DistinctNames(s) == \A i, j \in 1..Len(s) : i # j => s[i].name # s[j].name

FnPrune ==
  /\ fn.phase = "ready" /\ fn.kind = "cache"
  /\ fn' = FnDone(fn, "ensureRaycastBackendCopy", Prune(fn.input.keep, fn.input.entries))
  /\ UNCHANGED <<env, web, shims, watcher, cachedOpenConfig, assigns, pc, stage, pool, trace, ret, trials,
                 replay, q, err, kc, fl, td, sq, ld, lk>>

\* The probe log ------------------------------------------------------------
\* What getWorkingOpenConfig writes to raybridge-probe.log, as the lines of
\* the file; a line is the tuple of the things put into it.  The stages are
\* those of a run with few keys and neither RAYBRIDGE_DB_PROBE_WIDE nor _FULL.
MaxLogKeys == 2

LogKey(i, expr) == [label |-> <<"key", i>>, keyPragma |-> "key", keyExpr |-> expr]
LogInit == [label |-> "sqlcipher:legacy4", initSql |-> "PRAGMA cipher_compatibility = 4;"]
ProbeOutcomes == {"ok", "not_a_database", "locked"}

HeaderLines(time, db, nInits, nKeys) ==
  <<(<<"raybridge DB probe", time>>), (<<"dbs", db[2]>>),
    (<<"init candidates", nInits, "key candidates", nKeys>>),
    (<<"max attempts", nInits * nKeys>>)>>

StageLine(stageLabel, nInits, nKeys) ==
  <<"STAGE", stageLabel, nInits, nKeys, nInits * nKeys>>

\* An OPEN OK line that names the key itself.
OpenOkLineWithKey(init, key, db) == <<"OPEN OK", init.label, key.keyExpr, db[2]>>

\* OPEN OK: init=${init.label}, key=${key.label}, db=${basename(db)}
OpenOkLine(init, key, db) == <<"OPEN OK", init.label, key.label, db[2]>>

\* errorCounts after the outcomes of a stage, in the order the categories
\* first came up.
RECURSIVE CountErrors(_, _, _)
CountErrors(outcomes, i, counts) ==
  IF i > Len(outcomes) THEN counts
  ELSE CountErrors(outcomes, i + 1,
         IF outcomes[i] = "ok" THEN counts
         ELSE IF KeyPos(counts, outcomes[i]) > 0
              THEN Put(counts, outcomes[i], counts[KeyPos(counts, outcomes[i])][2] + 1)
              ELSE Put(counts, outcomes[i], 1))

\* .sort((a, b) => b[1] - a[1])
MostFirst(entry) == 0 - entry[2]

RECURSIVE SortMostFirst(_, _, _)
SortMostFirst(counts, i, sorted) ==
  IF i > Len(counts) THEN sorted
  ELSE SortMostFirst(counts, i + 1, InsertBy(sorted, counts[i], MostFirst))

FailedLine(counts) ==
  <<"FAILED", SubSeq(SortMostFirst(counts, 1, <<>>), 1, Min(8, Len(counts)))>>

\* The lines of one stage: its head, and OPEN OK for each task that opened.
StageLines(stageLabel, keys, outcomes, db) ==
  <<StageLine(stageLabel, 1, Len(keys))>>
    \o [i \in 1..Cardinality({j \in 1..Len(keys) : outcomes[j] = "ok"}) |->
         OpenOkLine(LogInit, keys[CHOOSE j \in 1..Len(keys) :
                      /\ outcomes[j] = "ok"
                      /\ Cardinality({h \in 1..j : outcomes[h] = "ok"}) = i], db)]

Won(outcomes) == \E i \in 1..Len(outcomes) : outcomes[i] = "ok"

\* The log of a run, or null when nothing is written.
ProbeLog(debug, time, db, keys, first, second) ==
  IF ~debug THEN Null
  ELSE Some(HeaderLines(time, db, 1, Len(keys))
         \o StageLines("fast inits + fast keys", keys, first, db)
         \o (IF Won(first) THEN <<>>
             ELSE StageLines("fast inits + all keys", keys, second, db)
                    \o (IF Won(second) THEN <<>>
                        ELSE <<FailedLine(CountErrors(second, 1,
                                            CountErrors(first, 1, <<>>)))>>)))

KeyExprs == {"k1", "k2"}

\* Two runs that are the same but for the key material.
ProbeRun(dbg, a, b, o1, o2) ==
  [debug |-> dbg, time |-> 1, db |-> <<"main", ".db">>,
   exprsA |-> a, exprsB |-> b, first |-> o1, second |-> o2]

KeysOf(exprs) == [i \in 1..Len(exprs) |-> LogKey(i, exprs[i])]

FnProbeLog ==
  /\ fn.phase = "ready" /\ fn.kind = "probe"
  /\ fn' = FnDone(fn, "getWorkingOpenConfig",
                  [a |-> ProbeLog(fn.input.debug, fn.input.time, fn.input.db,
                                  KeysOf(fn.input.exprsA), fn.input.first, fn.input.second),
                   b |-> ProbeLog(fn.input.debug, fn.input.time, fn.input.db,
                                  KeysOf(fn.input.exprsB), fn.input.first, fn.input.second)])
  /\ UNCHANGED <<env, web, shims, watcher, cachedOpenConfig, assigns, pc, stage, pool, trace, ret, trials,
                 replay, q, err, kc, fl, td, sq, ld, lk>>


\* ------------------------------------------- loadRaycastAuthDataMacSqlcipher
\* The macOS loader of the single-file version of auth.ts: up to MacRetries
\* engine runs, one per attempt.  The input gives what the engine comes back
\* with at each attempt.
MacRetries == 3

MacProcs ==
  {ProcRows, ProcNoRows, ProcLocked, ProcMalformed, ProcNoTable, ProcNotADb, ProcKilled}

\* One pass of the try block: the value it returns, or the message of what it
\* throws.  The error for a non-zero exit carries the exit code alone.
MacAttempt(proc) ==
  LET v == JsonParse(Trim(stripShellPreamble(proc.stdout)))
  IN  IF proc.error # "" THEN [threw |-> TRUE, rows |-> JsonFail, parts |-> <<proc.error>>]
      ELSE IF proc.status # -1 /\ proc.status # 0
      THEN [threw |-> TRUE, rows |-> JsonFail, parts |-> <<"sqlcipher exited with code">>]
      ELSE IF proc.signal # ""
      THEN [threw |-> TRUE, rows |-> JsonFail, parts |-> <<"sqlcipher exited due to signal">>]
      ELSE IF ~v.ok THEN [threw |-> TRUE, rows |-> JsonFail, parts |-> <<"SyntaxError">>]
      ELSE [threw |-> FALSE, rows |-> v, parts |-> <<>>]

\* The retry loop from attempt on: what the call gives, the attempts it made
\* and the waits between them.
RECURSIVE MacLoadFrom(_, _)
MacLoadFrom(procs, attempt) ==
  IF attempt > MacRetries
  THEN [threw |-> FALSE, rows |-> RowsValue(0), attempts |-> MacRetries, sleeps |-> <<>>]
  ELSE LET r == MacAttempt(procs[attempt])
       IN  IF ~r.threw
           THEN [threw |-> FALSE, rows |-> r.rows, attempts |-> attempt, sleeps |-> <<>>]
           ELSE IF Retries(isTransient(r.parts), attempt, MacRetries)
           THEN [MacLoadFrom(procs, attempt + 1) EXCEPT !.sleeps = <<Backoff(attempt)>> \o @]
           ELSE [threw |-> TRUE, rows |-> JsonFail, attempts |-> attempt, sleeps |-> <<>>]

loadRaycastAuthDataMacSqlcipher(procs) == MacLoadFrom(procs, 1)

FnMacSqlcipher ==
  /\ fn.phase = "ready" /\ fn.kind = "macload"
  /\ fn' = FnDone(fn, "loadRaycastAuthDataMacSqlcipher",
                  loadRaycastAuthDataMacSqlcipher(fn.input))
  /\ UNCHANGED <<env, web, shims, watcher, cachedOpenConfig, assigns, pc, stage, pool, trace,
                 ret, trials, replay, q, err, kc, fl, td, sq, ld, lk>>

\* ------------------------------------------------------------------ reloading
\* buildToolDefs and reloadServerContext (index.ts).  An extension has a name
\* and a list of tools; a tool has a name and a description.  The extensions
\* given to the reload are those that discoverExtensions and filterExtensions
\* produce, in their order; preferences and tokens go to the shims and are no
\* part of the context.
ExtensionNames == <<"github", "slack">>
ToolLists ==
  {<<[name |-> "list", description |-> "d1"]>>,
   <<[name |-> "list", description |-> "d2"]>>,
   <<[name |-> "list", description |-> "d1"], [name |-> "create", description |-> "d1"]>>}

ExtensionEntry(name, tools) == [extensionName |-> name, tools |-> tools]

\* One tool definition per extension: its name is the extension's, the
\* catalogue and the tool_name enum come from the extension's tools.
ToolDef(ext) ==
  [name |-> ext.extensionName,
   description |-> [i \in 1..Len(ext.tools) |-> <<ext.tools[i].name, ext.tools[i].description>>],
   enum |-> [i \in 1..Len(ext.tools) |-> ext.tools[i].name]]

buildToolDefs(extensions) ==
  [tools |-> [e \in 1..Len(extensions) |-> ToolDef(extensions[e])],
   lookup |->
     UNION {{[key |-> <<extensions[e].extensionName, extensions[e].tools[i].name>>,
              ext |-> extensions[e], toolIndex |-> i] :
               i \in 1..Len(extensions[e].tools)} : e \in 1..Len(extensions)}]

\* tools.map(t => t.name).sort().join(","): the names, which hold no comma,
\* in order; two such strings are equal when the sets of names are, the
\* names of the extensions being distinct.
ToolNames(tools) == {tools[i].name : i \in 1..Len(tools)}

Context(extensions) ==
  [extensions |-> extensions,
   tools |-> buildToolDefs(extensions).tools,
   lookup |-> buildToolDefs(extensions).lookup]

reloadServerContext(ctx, extensions) ==
  IF ToolNames(ctx.tools) = ToolNames(buildToolDefs(extensions).tools)
  THEN [ctx |-> ctx, returned |-> FALSE]
  ELSE [ctx |-> Context(extensions), returned |-> TRUE]

\* The extensions a scan can find: each name absent or with one of the lists.
Discoveries ==
  {g \o s :
     g \in {<<>>} \cup {<<ExtensionEntry(ExtensionNames[1], tl)>> : tl \in ToolLists},
     s \in {<<>>} \cup {<<ExtensionEntry(ExtensionNames[2], tl)>> : tl \in ToolLists}}

FnReload ==
  /\ fn.phase = "ready" /\ fn.kind = "reload"
  /\ fn' = FnDone(fn, "reloadServerContext",
                  reloadServerContext(Context(fn.input.before), fn.input.found))
  /\ UNCHANGED <<env, web, shims, watcher, cachedOpenConfig, assigns, pc, stage, pool, trace,
                 ret, trials, replay, q, err, kc, fl, td, sq, ld, lk>>

InitFn ==
  /\ web = WebIdle
  /\ shims = ShimsIdle
  /\ watcher = WatcherIdle
  /\ AtRest
  /\ ld = LdIdle
  /\ lk = LkIdle
  /\ \/ \E rows \in SingleRows : fn = FnReady("rows", rows)
     \/ \E n \in 0..MaxRows : \E rows \in [1..n -> ListedRows] : fn = FnReady("rows", rows)
     \/ \E parsed \in Dumps : fn = FnReady("dump", parsed)
     \/ \E pl \in {"win32", "darwin"} : fn = FnReady("listing", [platform |-> pl, entries |-> Null])
     \/ \E pl \in {"win32", "darwin"}, n \in 0..MaxListing :
          \E s \in [1..n -> FileNames] :
            Distinct(s) /\ fn = FnReady("listing", [platform |-> pl, entries |-> Some(s)])
     \/ \E k \in KeepValues, n \in 0..MaxVersions :
          \E s \in [1..n -> OtherVersions] :
            /\ DistinctNames(s)
            /\ fn = FnReady("cache", [keep |-> k, entries |-> <<ActiveVersion, LockFile>> \o s])
     \/ \E dbg \in BOOLEAN, n \in 1..MaxLogKeys :
          \E a \in [1..n -> KeyExprs], b \in [1..n -> KeyExprs],
             o1 \in [1..n -> ProbeOutcomes], o2 \in [1..n -> ProbeOutcomes] :
            /\ Won(o1) => o2 = o1
            /\ fn = FnReady("probe", ProbeRun(dbg, a, b, o1, o2))
     \/ \E procs \in [1..MacRetries -> MacProcs] : fn = FnReady("macload", procs)
     \/ \E before \in Discoveries, found \in Discoveries :
          fn = FnReady("reload", [before |-> before, found |-> found])

NextFn ==
  \/ FnNormalizeExtensionsRows
  \/ FnTokenRows
  \/ FnPreferenceRows
  \/ FnNormalizeBackendDump
  \/ FnBackendDump
  \/ FnListRaycastDbFiles
  \/ FnPrune
  \/ FnProbeLog
  \/ FnMacSqlcipher
  \/ FnReload

SpecFn == InitFn /\ [][NextFn]_vars

\* ============================================================ the copy lock
\* acquireLock and release of ensureRaycastBackendCopy (auth.ts), for several
\* processes that want the same backend version.  Time goes in steps of the
\* time a process waits for the lock.
NProcs == 2
MaxNow == 5

LOCK_WAIT_MS == 30000
LOCK_STALE_MS == 120000

Procs == 1..NProcs
NoLock == [held |-> FALSE, by |-> 0, mtimeMs |-> 0]

\* A lock file an earlier process left behind when it was killed.
LeftLock == [held |-> TRUE, by |-> 0, mtimeMs |-> 0]

LkStart(lockFile) ==
  [phase |-> "run", now |-> 0, lockFile |-> lockFile, copied |-> FALSE,
   at |-> [p \in Procs |-> "idle"], start |-> [p \in Procs |-> 0]]

\* Time passes.
LkTick ==
  /\ lk.phase = "run"
  /\ lk.now < MaxNow * LOCK_WAIT_MS
  /\ lk' = [lk EXCEPT !.now = lk.now + LOCK_WAIT_MS]
  /\ UNCHANGED <<env, web, shims, watcher, cachedOpenConfig, assigns, pc, stage, pool, trace, ret, trials,
                 replay, q, err, kc, fl, td, sq, ld, fn>>

\* ensureRaycastBackendCopy is called: with the copy in place it returns at
\* once, otherwise acquireLock begins.
LkCall(p) ==
  /\ lk.phase = "run" /\ lk.at[p] = "idle"
  /\ lk' = IF lk.copied THEN [lk EXCEPT !.at[p] = "returned"]
           ELSE [lk EXCEPT !.at[p] = "loop", !.start[p] = lk.now]
  /\ UNCHANGED <<env, web, shims, watcher, cachedOpenConfig, assigns, pc, stage, pool, trace, ret, trials,
                 replay, q, err, kc, fl, td, sq, ld, fn>>

\* The head of the loop and openSync(lockPath, "wx"): the lock file is
\* created when there is none.
LkOpen(p) ==
  /\ lk.phase = "run" /\ lk.at[p] = "loop"
  /\ lk' = IF ~(lk.now - lk.start[p] < LOCK_WAIT_MS) THEN [lk EXCEPT !.at[p] = "returned"]
           ELSE IF ~lk.lockFile.held
           THEN [lk EXCEPT !.at[p] = "locked",
                           !.lockFile = [held |-> TRUE, by |-> p, mtimeMs |-> lk.now]]
           ELSE [lk EXCEPT !.at[p] = "stat"]
  /\ UNCHANGED <<env, web, shims, watcher, cachedOpenConfig, assigns, pc, stage, pool, trace, ret, trials,
                 replay, q, err, kc, fl, td, sq, ld, fn>>

\* statSync(lockPath) and the look at its age.
LkStat(p) ==
  /\ lk.phase = "run" /\ lk.at[p] = "stat"
  /\ lk' = IF lk.lockFile.held /\ lk.now - lk.lockFile.mtimeMs > LOCK_STALE_MS
           THEN [lk EXCEPT !.at[p] = "unlink"]
           ELSE [lk EXCEPT !.at[p] = "sleep"]
  /\ UNCHANGED <<env, web, shims, watcher, cachedOpenConfig, assigns, pc, stage, pool, trace, ret, trials,
                 replay, q, err, kc, fl, td, sq, ld, fn>>

\* unlinkSync(lockPath) of a lock that looked stale: whatever file is there
\* now is removed, and the loop goes on; with no file it throws and the
\* process sleeps.
LkUnlink(p) ==
  /\ lk.phase = "run" /\ lk.at[p] = "unlink"
  /\ lk' = IF lk.lockFile.held
           THEN [lk EXCEPT !.at[p] = "loop", !.lockFile = NoLock]
           ELSE [lk EXCEPT !.at[p] = "sleep"]
  /\ UNCHANGED <<env, web, shims, watcher, cachedOpenConfig, assigns, pc, stage, pool, trace, ret, trials,
                 replay, q, err, kc, fl, td, sq, ld, fn>>

\* sleepSync(100)
LkSleep(p) ==
  /\ lk.phase = "run" /\ lk.at[p] = "sleep"
  /\ lk' = [lk EXCEPT !.at[p] = "loop"]
  /\ UNCHANGED <<env, web, shims, watcher, cachedOpenConfig, assigns, pc, stage, pool, trace, ret, trials,
                 replay, q, err, kc, fl, td, sq, ld, fn>>

\* With the lock: the copy is there already, or it is made now.
LkCopy(p) ==
  /\ lk.phase = "run" /\ lk.at[p] = "locked"
  /\ \E ok \in BOOLEAN :
       lk' = [lk EXCEPT !.at[p] = "release", !.copied = lk.copied \/ ok]
  /\ UNCHANGED <<env, web, shims, watcher, cachedOpenConfig, assigns, pc, stage, pool, trace, ret, trials,
                 replay, q, err, kc, fl, td, sq, ld, fn>>

\* finally { release() }: unlinkSync(lockPath).
LkRelease(p) ==
  /\ lk.phase = "run" /\ lk.at[p] = "release"
  /\ lk' = [lk EXCEPT !.at[p] = "returned", !.lockFile = NoLock]
  /\ UNCHANGED <<env, web, shims, watcher, cachedOpenConfig, assigns, pc, stage, pool, trace, ret, trials,
                 replay, q, err, kc, fl, td, sq, ld, fn>>

\* A process with the lock is killed: its lock file stays.
LkKilled(p) ==
  /\ lk.phase = "run" /\ lk.at[p] \in {"locked", "release"}
  /\ lk' = [lk EXCEPT !.at[p] = "dead"]
  /\ UNCHANGED <<env, web, shims, watcher, cachedOpenConfig, assigns, pc, stage, pool, trace, ret, trials,
                 replay, q, err, kc, fl, td, sq, ld, fn>>

InitLock ==
  /\ web = WebIdle
  /\ shims = ShimsIdle
  /\ watcher = WatcherIdle
  /\ AtRest
  /\ ld = LdIdle
  /\ lk \in {LkStart(NoLock), LkStart(LeftLock)}
  /\ fn = FnIdle

NextLock ==
  \/ LkTick
  \/ \E p \in Procs : LkCall(p)
  \/ \E p \in Procs : LkOpen(p)
  \/ \E p \in Procs : LkStat(p)
  \/ \E p \in Procs : LkUnlink(p)
  \/ \E p \in Procs : LkSleep(p)
  \/ \E p \in Procs : LkCopy(p)
  \/ \E p \in Procs : LkRelease(p)
  \/ \E p \in Procs : LkKilled(p)

SpecLock == InitLock /\ [][NextLock]_vars

\* ------------------------------------------------------------ the HTTP server
\* startHttpServer of http-server.ts with the two callbacks main() hands it.
\* The clock counts milliseconds and moves a minute at a time; the interval
\* timer of the session cleanup comes due every five minutes.  Requests arrive
\* while the clock is far enough from its bound for their session to expire
\* inside it.
MaxSessions == 2
MaxClock == 40

Minute == 60 * 1000
IDLE_TIMEOUT == 30 * 60 * 1000
CleanupEvery == 5 * 60 * 1000
Horizon == MaxClock * Minute - IDLE_TIMEOUT - CleanupEvery

SessionIds == 1..MaxSessions
NoSessionId == 0
Methods == {"GET", "POST", "DELETE"}

\* main(): onServerCreated pushes the server, onServerClosed splices it out.
onServerCreated(servers, server) == Append(servers, server)

onServerClosed(servers, server) ==
  IF \E i \in 1..Len(servers) : servers[i] = server
  THEN LET idx == CHOOSE i \in 1..Len(servers) :
                    servers[i] = server /\ \A j \in 1..(i - 1) : servers[j] # server
       IN  SubSeq(servers, 1, idx - 1) \o SubSeq(servers, idx + 1, Len(servers))
  ELSE servers

\* What the code does when it closes a session: the callback, server.close(),
\* sessions.delete(id).  notified and closed count the two calls per server.
CloseSession(w, id) ==
  LET server == w.sessions[id].server
  IN  [w EXCEPT !.servers = onServerClosed(w.servers, server),
                !.notified[server] = @ + 1,
                !.closed[server] = @ + 1,
                !.sessions = [s \in DOMAIN w.sessions \ {id} |-> w.sessions[s]]]

WebStart ==
  [phase |-> "up", now |-> 0, due |-> FALSE,
   sessions |-> [s \in {} |-> 0],
   servers |-> <<>>,
   started |-> 0,
   notified |-> [s \in SessionIds |-> 0],
   closed |-> [s \in SessionIds |-> 0]]

\* app.all("/mcp"): the four branches in the order of the code.  A request of
\* an existing session is handed to the session's transport, whatever its
\* method; terminated records that the transport was handed a DELETE.  The
\* last two answers (404, 400) change nothing.
mcp(w, method, sessionId, initialize) ==
  IF sessionId # NoSessionId /\ sessionId \in DOMAIN w.sessions
  THEN [w EXCEPT !.sessions[sessionId].lastActivity = w.now,
                 !.sessions[sessionId].terminated = @ \/ method = "DELETE"]
  ELSE IF sessionId = NoSessionId /\ method = "POST" /\ initialize
  THEN LET id == w.started + 1
       IN  [w EXCEPT !.started = id,
                     !.sessions = [s \in DOMAIN w.sessions \cup {id} |->
                                     IF s = id
                                     THEN [server |-> id, lastActivity |-> w.now,
                                           terminated |-> FALSE]
                                     ELSE w.sessions[s]],
                     !.servers = onServerCreated(w.servers, id)]
  ELSE IF sessionId # NoSessionId /\ method = "DELETE"
  THEN IF sessionId \in DOMAIN w.sessions
       THEN CloseSession(w, sessionId)
       ELSE w
  ELSE w

\* now - session.lastActivity > IDLE_TIMEOUT
ExpiredAtTimeout(now, session) == now - session.lastActivity >= IDLE_TIMEOUT

Expired(now, session) == now - session.lastActivity > IDLE_TIMEOUT

RECURSIVE CleanupFrom(_, _)
CleanupFrom(w, ids) ==
  IF ids = {} THEN w
  ELSE LET id == CHOOSE i \in ids : \A j \in ids : i <= j
       IN  CleanupFrom(IF Expired(w.now, w.sessions[id]) THEN CloseSession(w, id) ELSE w,
                       ids \ {id})

cleanupInterval(w) == CleanupFrom(w, DOMAIN w.sessions)

WebIdleElsewhere ==
  UNCHANGED <<env, shims, watcher, ld, lk, fn, cachedOpenConfig, assigns, pc, stage, pool,
              trace, ret, trials, replay, q, err, kc, fl, td, sq>>

\* A minute passes; at every fifth the interval timer comes due, and the clock
\* waits for its callback.
WebTick ==
  /\ web.phase = "up"
  /\ ~web.due
  /\ web.now < MaxClock * Minute
  /\ web' = [web EXCEPT !.now = @ + Minute,
                        !.due = (web.now + Minute) % CleanupEvery = 0]
  /\ WebIdleElsewhere

WebCleanup ==
  /\ web.phase = "up"
  /\ web.due
  /\ web' = [cleanupInterval(web) EXCEPT !.due = FALSE]
  /\ WebIdleElsewhere

WebInitialize ==
  /\ web.phase = "up"
  /\ web.now <= Horizon
  /\ web.started < MaxSessions
  /\ web' = mcp(web, "POST", NoSessionId, TRUE)
  /\ WebIdleElsewhere

WebRequest ==
  /\ web.phase = "up"
  /\ web.now <= Horizon
  /\ \E method \in Methods : \E sessionId \in SessionIds \cup {NoSessionId} :
       web' = mcp(web, method, sessionId, FALSE)
  /\ WebIdleElsewhere

InitWeb ==
  /\ AtRest
  /\ ld = LdIdle
  /\ lk = LkIdle
  /\ fn = FnIdle
  /\ shims = ShimsIdle
  /\ watcher = WatcherIdle
  /\ web = WebStart

NextWeb ==
  \/ WebTick
  \/ WebCleanup
  \/ WebInitialize
  \/ WebRequest

SpecWeb == InitWeb /\ [][NextWeb]_vars

\* The timers of the event loop fire: time passes and a due callback runs.
SpecWebLive == SpecWeb /\ WF_vars(WebTick) /\ WF_vars(WebCleanup)

\* ------------------------------------------------------------ the dump cache
\* loadRaycastDataViaWindowsBackend keeps its last dump in the module variable
\* cachedWindowsDataDump, stamped with the Date.now() it read on entry.
\* loadServerContext and reloadServerContext call it twice on Windows, once
\* from loadRaycastPreferences and once from loadRaycastTokens.  Here ld holds
\* such a pair of calls: the clock, the cache, and the backend processes
\* spawned for the pair.
MaxDumpSteps == 5
MaxContexts == 2
DumpTtlMs == 2000

Durations == {k * 500 : k \in 0..MaxDumpSteps}
NoDump == <<"null">>
Spawning == {"dumpFailed", "emptyStdout", "nonJson", "dump"}

DcStart ==
  [phase |-> "context", context |-> 1, calls |-> <<>>, now |-> 0,
   cachedWindowsDataDump |-> NoDump, spawned |-> 0]

CacheFresh(now, cached) == cached # NoDump /\ now - cached[2] < DumpTtlMs

\* One call: it meets the outcome and takes took milliseconds unless the cache
\* answers.  Only a dump that parsed is cached, under the time of entry.
WindowsDump(c, outcome, took) ==
  IF CacheFresh(c.now, c.cachedWindowsDataDump)
  THEN [c EXCEPT !.calls = Append(@, "cached")]
  ELSE [c EXCEPT !.calls = Append(@, outcome),
                 !.now = IF outcome = "noKey" THEN @ ELSE @ + took,
                 !.spawned = IF outcome \in Spawning THEN @ + 1 ELSE @,
                 !.cachedWindowsDataDump = IF outcome = "dump" THEN <<"at", c.now>> ELSE @]

DcIdleElsewhere ==
  UNCHANGED <<env, web, shims, watcher, lk, fn, cachedOpenConfig, assigns, pc, stage, pool,
              trace, ret, trials, replay, q, err, kc, fl, td, sq>>

\* loadRaycastPreferences, then loadRaycastTokens.
DcLoad ==
  /\ ld.phase = "context"
  /\ Len(ld.calls) < 2
  /\ \E outcome \in BackendOutcomes, took \in Durations :
       ld' = WindowsDump(ld, outcome, took)
  /\ DcIdleElsewhere

\* The watcher asks for a reload some time later.
DcReload ==
  /\ ld.phase = "context"
  /\ Len(ld.calls) = 2
  /\ ld.context < MaxContexts
  /\ \E later \in Durations :
       ld' = [ld EXCEPT !.context = @ + 1, !.calls = <<>>, !.spawned = 0,
                        !.now = @ + later]
  /\ DcIdleElsewhere

InitDump ==
  /\ AtRest
  /\ lk = LkIdle
  /\ fn = FnIdle
  /\ web = WebIdle
  /\ shims = ShimsIdle
  /\ watcher = WatcherIdle
  /\ ld = DcStart

NextDump ==
  \/ DcLoad
  \/ DcReload

SpecDump == InitDump /\ [][NextDump]_vars

\* ------------------------------------------- the probe stages, failure by failure
\* One search of getWorkingOpenConfig on an engine-encrypted vault, with the
\* default opt-ins (a second stage with more tasks than workers) or with the
\* wide or full opt-in, and with every way a probe can fail: the seven buckets
\* of runOne's catch.  A pair that opens the vault answers its probe with rows;
\* every other pair fails in one of the seven ways.

Searcher == "prefs"

ProbeFailures ==
  {ProcNotADb, ProcLocked, ProcProbeTimeout, ProcSyntax, ProcMalformed, ProcNoRows,
   ProcSpawnError}

Buckets ==
  {"not_a_database", "locked", "timeout", "syntax", "malformed", "probe_empty", "other"}

SettledProbes(task) ==
  IF Working(task.init, task.key) THEN {ProcRows} ELSE ProbeFailures

StageEnvs == {e \in PoolEnvs \cup WideEnvs : WellFormed(e) /\ e.nKeys > 0}

\* A probe's promise settles, by the close event, the error event or the
\* timeout timer, and its worker carries on.
ProbeSettles(c) ==
  /\ pc[c] = "probing"
  /\ \E idx \in pool[c].inflight : \E proc \in SettledProbes(pool[c].tasks[idx]) :
        pool' = [pool EXCEPT ![c] = ProbeFinished(pool[c], idx, proc)]
  /\ UNCHANGED <<err, kc, fl, td, sq, env, web, shims, watcher, ld, lk, fn, cachedOpenConfig,
                 assigns, pc, stage, trace, ret, trials, replay, q>>

InitProbe ==
  /\ web = WebIdle
  /\ shims = ShimsIdle
  /\ watcher = WatcherIdle
  /\ env \in StageEnvs
  /\ cachedOpenConfig = NullConfig
  /\ assigns = 0
  /\ pc = [c \in Callers |-> "idle"]
  /\ stage = [c \in Callers |-> 0]
  /\ pool = [c \in Callers |-> NoPool]
  /\ trace = [c \in Callers |-> <<>>]
  /\ ret = [c \in Callers |-> NullConfig]
  /\ trials = [c \in Callers |-> <<>>]
  /\ replay = [c \in Callers |-> "none"]
  /\ q = QIdle
  /\ ld = LdIdle
  /\ lk = LkIdle
  /\ fn = FnIdle
  /\ err = [c \in Callers |-> "none"]
  /\ kc = KcIdle
  /\ fl = FlIdle
  /\ td = TdIdle
  /\ sq = SqIdle

NextProbe ==
  \/ CallStartProbing(Searcher)
  \/ ProbeSettles(Searcher)
  \/ StageWon(Searcher)
  \/ StageNext(Searcher)
  \/ StageExhausted(Searcher)

SpecProbe == InitProbe /\ [][NextProbe]_vars

\* Every spawned probe closes or meets its timer, and the continuations of
\* settled promises run: the one call under way takes its next step.
SpecProbeLive == SpecProbe /\ WF_vars(NextProbe)

\* ------------------------------------------------------------------ the shims
\* shims.ts keeps the extension of the tool being executed in the module
\* variable currentExtension; executeTool sets it and then awaits the tool.
\* One JavaScript thread: a tool runs until it awaits or returns, and while it
\* awaits another executeTool call may begin.  Each call notes what the API
\* gave it: the extension whose tokens, preferences or name it received.
MaxReads == 2

Tools == {"t1", "t2"}
ExtensionOf(t) == IF t = "t1" THEN "github" ELSE "slack"
Apis == {"getTokens", "getPreferenceValues", "environment.extensionName"}
NoTool == "none"

ShimsStart ==
  [phase |-> "up", currentExtension |-> "", running |-> NoTool,
   at |-> [t \in Tools |-> "idle"],
   received |-> [t \in Tools |-> <<>>]]

setCurrentExtension(s, name) == [s EXCEPT !.currentExtension = name]

\* getTokens, getPreferenceValues and environment.extensionName all look the
\* module variable up when they are called; what they give belongs to the
\* extension it names then.
Resolve(s, api) == [api |-> api, extension |-> s.currentExtension]

ShimsIdleElsewhere ==
  UNCHANGED <<env, web, watcher, ld, lk, fn, cachedOpenConfig, assigns, pc, stage, pool,
              trace, ret, trials, replay, q, err, kc, fl, td, sq>>

\* executeTool up to the call of the tool's function.
executeTool(t) ==
  /\ shims.phase = "up" /\ shims.running = NoTool /\ shims.at[t] = "idle"
  /\ shims' = [setCurrentExtension(shims, ExtensionOf(t)) EXCEPT
                 !.running = t, !.at[t] = "running"]
  /\ ShimsIdleElsewhere

\* The running tool calls one of the three.
ToolReads(t) ==
  /\ shims.phase = "up" /\ shims.running = t
  /\ Len(shims.received[t]) < MaxReads
  /\ \E api \in Apis :
       shims' = [shims EXCEPT !.received[t] = Append(@, Resolve(shims, api))]
  /\ ShimsIdleElsewhere

\* The running tool awaits (a fetch, a timer): the thread is free.
ToolAwaits(t) ==
  /\ shims.phase = "up" /\ shims.running = t
  /\ shims' = [shims EXCEPT !.running = NoTool, !.at[t] = "awaiting"]
  /\ ShimsIdleElsewhere

\* What the tool awaited has settled and the tool runs on.
ToolResumes(t) ==
  /\ shims.phase = "up" /\ shims.running = NoTool /\ shims.at[t] = "awaiting"
  /\ shims' = [shims EXCEPT !.running = t, !.at[t] = "running"]
  /\ ShimsIdleElsewhere

\* The tool's promise resolves and executeTool returns its result.
ToolReturns(t) ==
  /\ shims.phase = "up" /\ shims.running = t
  /\ shims' = [shims EXCEPT !.running = NoTool, !.at[t] = "returned"]
  /\ ShimsIdleElsewhere

InitShims ==
  /\ AtRest
  /\ ld = LdIdle
  /\ lk = LkIdle
  /\ fn = FnIdle
  /\ web = WebIdle
  /\ watcher = WatcherIdle
  /\ shims = ShimsStart

NextShims ==
  \/ \E t \in Tools : executeTool(t)
  \/ \E t \in Tools : ToolReads(t)
  \/ \E t \in Tools : ToolAwaits(t)
  \/ \E t \in Tools : ToolResumes(t)
  \/ \E t \in Tools : ToolReturns(t)

SpecShims == InitShims /\ [][NextShims]_vars

\* ------------------------------------------------------------------ the watcher
\* startExtensionWatcher: a change in a watched directory arms one debounce
\* timer; when the timer fires, triggerReload runs unless a reload is running.
\* reloads counts the onReload calls in progress and unserved says that a
\* relevant change has been seen after the last start of a reload.
MaxEvents == 4
MaxServers == 2

Filenames == {"", "github/package.json", "github/tools/list.js", "github/README.md"}

\* The filter of the extensions watcher: a named file that is neither a
\* package.json nor under tools/ is ignored.
Relevant(filename) ==
  ~(/\ filename # ""
    /\ filename # "github/package.json"
    /\ filename # "github/tools/list.js")

ReloadOutcomes == {"changed", "unchanged", "threw"}

WatcherStart(nServers) ==
  [phase |-> "up", debounceTimer |-> FALSE, isReloading |-> FALSE,
   reloads |-> 0, unserved |-> FALSE, events |-> 0,
   servers |-> nServers, notified |-> 0, dropped |-> FALSE]

\* debouncedReload: clear the timer that is armed, arm a new one.
debouncedReload(w) == [w EXCEPT !.debounceTimer = TRUE]

\* triggerReload up to `await onReload()`.
triggerReload(w) ==
  IF w.isReloading THEN [w EXCEPT !.dropped = w.unserved]
  ELSE [w EXCEPT !.isReloading = TRUE, !.reloads = @ + 1, !.unserved = FALSE]

\* triggerReload from the result of onReload to the finally.
ReloadDone(w, outcome) ==
  [w EXCEPT !.notified = IF outcome = "changed" THEN w.servers ELSE @,
            !.reloads = @ - 1,
            !.isReloading = FALSE]

WatcherIdleElsewhere ==
  UNCHANGED <<env, web, shims, ld, lk, fn, cachedOpenConfig, assigns, pc, stage, pool,
              trace, ret, trials, replay, q, err, kc, fl, td, sq>>

\* The callback of fs.watch on the extensions directory.
FileChanged ==
  /\ watcher.phase = "up" /\ watcher.events < MaxEvents
  /\ \E filename \in Filenames :
       watcher' =
         IF Relevant(filename)
         THEN [debouncedReload(watcher) EXCEPT !.events = @ + 1, !.unserved = TRUE]
         ELSE [watcher EXCEPT !.events = @ + 1]
  /\ WatcherIdleElsewhere

\* The callback of setTimeout.
TimerFires ==
  /\ watcher.phase = "up" /\ watcher.debounceTimer
  /\ watcher' = triggerReload([watcher EXCEPT !.debounceTimer = FALSE])
  /\ WatcherIdleElsewhere

\* onReload settles, the servers are notified, the finally runs.
ReloadSettles ==
  /\ watcher.phase = "up" /\ watcher.reloads > 0
  /\ \E outcome \in ReloadOutcomes : watcher' = ReloadDone(watcher, outcome)
  /\ WatcherIdleElsewhere

InitWatcher ==
  /\ AtRest
  /\ ld = LdIdle
  /\ lk = LkIdle
  /\ fn = FnIdle
  /\ web = WebIdle
  /\ shims = ShimsIdle
  /\ \E nServers \in 0..MaxServers : watcher = WatcherStart(nServers)

NextWatcher ==
  \/ FileChanged
  \/ TimerFires
  \/ ReloadSettles

SpecWatcher == InitWatcher /\ [][NextWatcher]_vars

\* Timers fire and reloads settle.
SpecWatcherLive == SpecWatcher /\ WF_vars(TimerFires) /\ WF_vars(ReloadSettles)

\* ================================================================== claims
ProbeLabels == {StageLabel(s) : s \in 1..4}

\* C1: within one probe stage the winner is the configuration of the first probe
\* that completed successfully; a later success never replaces it.
C1_FirstSuccessWins ==
  \A c \in Callers : pool[c].first # NullConfig => pool[c].winner = pool[c].first

\* C2: cachedOpenConfig is assigned at most once, and once it is non-null its
\* value never changes, for every interleaving of calls.
C2_CacheWrittenOnce ==
  [][/\ assigns' <= 1
     /\ cachedOpenConfig # NullConfig => cachedOpenConfig' = cachedOpenConfig]_vars

\* C3: every configuration getWorkingOpenConfig returns, replayed through
\* runSqlcipherQuery on the unchanged vault, yields a non-empty result on the
\* first attempt.
C3_ReplayOpens ==
  \A c \in Callers : replay[c] # "none" => replay[c] = "rows"

\* C4: tryTransparentDecryptOpen returns a configuration for a key only if the
\* plaintext carries the signature and the structural query exits 0 with a
\* non-empty JSON row array; a key whose signature matches but whose structural
\* query fails, times out or yields no rows produces no configuration, and the
\* next key is tried.
StructuralQueryPassed(proc) ==
  proc.status = 0 /\ NonEmptyRows(JsonParse(Trim(proc.stdout)))

RanDecryptorAndReturned(c) == pc[c] = "returned" /\ trace[c] = SearchPrefix

C4_TransparentAcceptance ==
  \A c \in Callers :
     LET log == trials[c]
     IN /\ RanDecryptorAndReturned(c) =>
             /\ log # <<>>
             /\ log[Len(log)].signature
             /\ StructuralQueryPassed(log[Len(log)].proc)
             /\ ret[c] = TransparentConfig(log[Len(log)].key)
        /\ \A i \in 1..Len(log) :
             (log[i].signature /\ ~StructuralQueryPassed(log[i].proc)) =>
                /\ ~(i = Len(log) /\ RanDecryptorAndReturned(c))
                /\ i < Len(log) \/ i = Len(env.rawKeys)

C4_Witness ==
  \E c \in Callers :
     /\ RanDecryptorAndReturned(c)
     /\ Len(trials[c]) >= 2
     /\ \E i \in 1..(Len(trials[c]) - 1) :
           trials[c][i].signature /\ ~StructuralQueryPassed(trials[c][i].proc)

\* C6: a call that finds cachedOpenConfig set returns it without listing vault
\* files, running the transparent decryptor, generating candidates or spawning
\* a probe.
C6_PrimedCacheNoSearch ==
  [][\A c \in Callers :
       (pc[c] = "idle" /\ pc'[c] # "idle" /\ cachedOpenConfig # NullConfig) =>
          /\ pc'[c] = "returned"
          /\ ret'[c] = cachedOpenConfig
          /\ trace'[c] = <<>>
          /\ trials'[c] = <<>>
          /\ pool' = pool
          /\ stage' = stage
          /\ cachedOpenConfig' = cachedOpenConfig]_vars

C6_Witness ==
  \E c \in Callers :
     pc[c] = "returned" /\ trace[c] = <<>> /\ ret[c] # NullConfig /\ ret[c] = cachedOpenConfig

\* C7: the stages run in the order 1, 2, 3, 4, each over its own cross product;
\* a stage starts only after the one before it has finished with no winner;
\* stage 3 needs the wide or full opt-in and stage 4 the full opt-in; after a
\* stage with a winner no stage runs.
FastInitSet == {getInitCandidates[i] : i \in 1..Min(NInits, Max(1, env.initFastLimit))}
AllInitSet == {getInitCandidates[i] : i \in 1..NInits}
FastKeySet == 1..Min(env.nKeys, Max(1, env.keyFastLimit))
AllKeySet == 1..env.nKeys

StagePairs(s) ==
  {[init |-> i, key |-> k] :
     i \in IF s \in {1, 2} THEN FastInitSet ELSE AllInitSet,
     k \in IF s \in {1, 3} THEN FastKeySet ELSE AllKeySet}

C7_StageOrder ==
  [][\A c \in Callers :
       /\ stage'[c] # stage[c] =>
            /\ stage'[c] = stage[c] + 1
            /\ stage[c] > 0 => /\ pool[c].inflight = {}
                               /\ pool[c].winner = NullConfig
                               /\ pool[c].first = NullConfig
            /\ stage'[c] = 3 => env.wide \/ env.full
            /\ stage'[c] = 4 => env.full
            /\ {pool'[c].tasks[t] : t \in 1..Len(pool'[c].tasks)} = StagePairs(stage'[c])
            /\ Len(pool'[c].tasks) = Cardinality(StagePairs(stage'[c]))
       /\ (pc[c] = "probing" /\ pool[c].first # NullConfig) => stage'[c] = stage[c]]_vars

C7_Witness ==
  \E c \in Callers : stage[c] = 4 /\ pc[c] = "returned" /\ Len(pool[c].tasks) > 1

\* C8: the transparent decryptor is tried before any key candidate is generated
\* or any probe is spawned, and when it returns a configuration that
\* configuration is cached and returned with no probe stage run.
LastAccepted(log) ==
  log # <<>> /\ log[Len(log)].signature /\ AcceptProbe(log[Len(log)].proc)

C8_TransparentFirst ==
  [][\A c \in Callers :
       /\ \A i \in 1..Len(trace'[c]) :
            trace'[c][i] \in {"getKeyCandidates", "getInitCandidates"} \cup ProbeLabels =>
               \E j \in 1..(i - 1) : trace'[c][j] = "tryTransparentDecryptOpen"
       /\ (pc[c] = "idle" /\ LastAccepted(trials'[c])) =>
            /\ pc'[c] = "returned"
            /\ ret'[c] = TransparentConfig(trials'[c][Len(trials'[c])].key)
            /\ cachedOpenConfig' = ret'[c]
            /\ stage'[c] = 0
            /\ pool'[c] = NoPool
            /\ \A i \in 1..Len(trace'[c]) : trace'[c][i] \notin ProbeLabels]_vars

C8_Witness ==
  \E c \in Callers :
     /\ LastAccepted(trials[c])
     /\ pc[c] = "returned"
     /\ stage[c] = 0
     /\ cachedOpenConfig = ret[c]
     /\ ret[c].transparentDecryptKey # "none"

\* C9: once a worker has recorded a winner no probe is started: the probes in
\* flight run to completion and no further task is probed.
C9_NoProbeAfterWinner ==
  [][\A c \in Callers :
       /\ (pc[c] = "probing" /\ pool[c].winner # NullConfig) =>
            /\ pool'[c].inflight \subseteq pool[c].inflight
            /\ pool'[c].probed = pool[c].probed
       /\ (pc[c] = "probing" /\ pc'[c] # "probing") => pool[c].inflight = {}]_vars

C9_Witness ==
  \E c \in Callers :
     /\ pool[c].winner # NullConfig
     /\ pool[c].inflight = {}
     /\ pool[c].nextIdx <= Len(pool[c].tasks)
     /\ \E t \in 1..Len(pool[c].tasks) : pool[c].probed[t] = 0

TransientFailure(proc) == proc \in {ProcLocked, ProcMalformed, ProcNoTable}
Succeeded(proc) == proc.error = "" /\ proc.status = 0 /\ proc.signal = ""

C5_RetryPolicy ==
  LET n == Len(q.log)
      over == q.phase \in {"returned", "threw"}
  IN q.cfg.transparentDecryptKey = "none" =>
       /\ n <= 3
       /\ q.sleeps = [i \in 1..Len(q.sleeps) |-> 50 * i]
       /\ \A i \in 1..(n - 1) : TransientFailure(q.log[i])
       /\ q.phase = "running" => /\ Len(q.sleeps) = n
                                 /\ q.attempt = n + 1
                                 /\ n < 3
                                 /\ \A i \in 1..n : TransientFailure(q.log[i])
       /\ over => /\ n >= 1
                  /\ Len(q.sleeps) = n - 1
       /\ q.phase = "returned" => /\ Succeeded(q.log[n])
                                  /\ q.rows = ParseRows(q.log[n].stdout)
       /\ q.phase = "threw" => /\ ~Succeeded(q.log[n])
                               /\ TransientFailure(q.log[n]) => n = 3
                               /\ (n = 3 /\ TransientFailure(q.log[n])) => q.sleeps = <<50, 100>>

C5_Witness ==
  /\ q.phase = "threw"
  /\ Len(q.log) = 3
  /\ \A i \in 1..3 : TransientFailure(q.log[i])
  /\ q.sleeps = <<50, 100>>

\* C11: a probe whose child has not closed within PROBE_TIMEOUT_MS is killed and
\* counted exactly once, under "timeout", also after the child's close event;
\* its worker then calls runOne again, which claims the next index of the stage
\* unless a winner has been recorded.
TimedOut == {idx \in DOMAIN fl.runs : fl.runs[idx].killed}

C11_TimeoutCountedOnce ==
  fl.phase \in {"probing", "over"} =>
    /\ \A idx \in TimedOut :
          /\ fl.runs[idx].st \in {"expired", "closed"}
          /\ fl.counted[idx] = <<"timeout">>
          /\ ~fl.after[idx].winner => fl.after[idx].claimed = 1
    /\ fl.errorCounts["timeout"] = Cardinality(TimedOut)

\* A timed-out probe whose child has closed since, counted once, whose worker
\* went on to probe a task past the first PROBE_CONCURRENCY.
C11_Witness ==
  /\ fl.phase = "over"
  /\ \E idx \in TimedOut :
        /\ fl.runs[idx].st = "closed"
        /\ fl.after[idx].claimed = 1
  /\ fl.errorCounts["timeout"] = 2
  /\ \A i \in DOMAIN fl.runs : fl.p.probed[i] = 1

\* C12: when no secret-store entry is readable, the key candidate list is empty
\* and getWorkingOpenConfig fails with the key-recovery error without spawning
\* any engine subprocess (no transparent structural query, no probe).
NoSecretReadable == env.nKeys = 0 /\ (env.platform = "win32" => env.rawKeys = <<>>)

C12_NoKeysNoSpawn ==
  \A c \in Callers :
     pc[c] = "threw" /\ env.hasDb /\ NoSecretReadable =>
       /\ err[c] = "No Raycast DB key candidates found"
       /\ \A i \in 1..Len(trials[c]) : ~trials[c][i].spawned
       /\ stage[c] = 0
       /\ pool[c] = NoPool

\* C13: when every probe of every enabled stage has failed, the call raises the
\* one aggregated error, once, and does not assign cachedOpenConfig; a call made
\* afterwards with the cache still unset searches again from the start, and its
\* probing begins at stage 1.
EnabledStages ==
  {1, 2} \cup (IF wideProbe THEN {3} ELSE {}) \cup (IF fullProbe THEN {4} ELSE {})

AggregatedError == "Could not open Raycast DB with any known key candidate"

C13_ExhaustionNotCached ==
  [][\A c \in Callers :
       /\ (pc[c] = "probing" /\ pc'[c] = "threw") =>
             /\ err[c] = "none"
             /\ err'[c] = AggregatedError
             /\ pool[c].winner = NullConfig
             /\ \A i \in 1..Len(pool[c].probed) : pool[c].probed[i] = 1
             /\ {trace[c][i] : i \in 1..Len(trace[c])} \cap ProbeLabels
                   = {StageLabel(s) : s \in EnabledStages}
             /\ cachedOpenConfig' = cachedOpenConfig
             /\ assigns' = assigns
       /\ (err[c] # "none" => err'[c] = err[c])
       /\ (/\ pc[c] = "idle" /\ pc'[c] # "idle"
           /\ cachedOpenConfig = NullConfig
           /\ \E d \in Callers : err[d] = AggregatedError) =>
             /\ Len(trace'[c]) >= Len(SearchPrefix)
             /\ SubSeq(trace'[c], 1, Len(SearchPrefix)) = SearchPrefix
             /\ pc'[c] = "probing" => stage'[c] = 1 /\ pool'[c] = probe(1)]_vars

\* Both calls, one after the other, exhausted every enabled stage.
C13_Witness ==
  /\ \A c \in Callers : err[c] = AggregatedError /\ stage[c] = 3
  /\ cachedOpenConfig = NullConfig


\* No source has anything to give: no override, and the keychain command
\* fails (macOS) or the last_key file and every credential are unavailable.
NoSourceAvailable ==
  /\ ~EnvGiven(kc.in.envKey)
  /\ IF kc.in.platform = "win32"
     THEN /\ kc.in.lastKey = Absent
          /\ \A i \in 1..NTargets : readWindowsCredentialBlob(kc.in.store, i) = Absent
     ELSE kc.in.keychain = SecurityFails

\* C14: getKeyCandidates never throws on either platform, and returns an
\* empty list when no secret source is available.
C14_NeverThrows ==
  kc.phase = "done" =>
    /\ ~kc.out.threw
    /\ (NoSourceAvailable => kc.out.list = <<>>)

FromOverride(c) == c.label[1] = "env"

\* C15: with a non-blank override key, on both platforms, the candidates of
\* the override come first and nothing else is derived: every candidate of
\* the returned list comes from the override.
C15_OverrideShortCircuits ==
  kc.phase = "done" /\ EnvGiven(kc.in.envKey) =>
    /\ ~kc.out.threw
    /\ kc.out.list # <<>>
    /\ \A i \in 1..Len(kc.out.list) : FromOverride(kc.out.list[i])


\* Where the (keyPragma, keyExpr) pair of each returned candidate was first
\* discovered.
FirstPos(c) == CHOOSE i \in 1..Len(kc.found) :
  SameKey(kc.found[i], c) /\ \A j \in 1..(i - 1) : ~SameKey(kc.found[j], c)
FirstPositions == [i \in 1..Len(kc.out.list) |-> FirstPos(kc.out.list[i])]
PriorityFlags == [i \in 1..Len(kc.out.list) |-> isPriority(kc.out.list[i])]
WindowsDone == kc.phase = "done" /\ kc.in.platform = "win32"
NoDuplicatePair(pos) == \A i, j \in 1..Len(pos) : i # j => pos[i] # pos[j]
EveryPairKept(pos) ==
  \A i \in 1..Len(kc.found) : \E j \in 1..Len(pos) : SameKey(kc.found[pos[j]], kc.found[i])

\* C16 as stated: the returned list has no duplicate (keyPragma, keyExpr)
\* pair, has every discovered pair, and is in first-occurrence order.
C16_FirstOccurrenceOrder ==
  WindowsDone =>
    LET pos == FirstPositions
    IN /\ NoDuplicatePair(pos)
       /\ EveryPairKept(pos)
       /\ \A i, j \in 1..Len(pos) : i < j => pos[i] < pos[j]

\* C16 amended: no duplicate pair, every discovered pair kept as it was first
\* discovered, the candidates with a priority label before all others, and
\* first-occurrence order among the priority ones and among the others.
C16_DedupedPriorityFirst ==
  WindowsDone =>
    LET pos == FirstPositions
        pri == PriorityFlags
    IN /\ NoDuplicatePair(pos)
       /\ EveryPairKept(pos)
       /\ \A i \in 1..Len(pos) : kc.out.list[i] = kc.found[pos[i]]
       /\ \A i, j \in 1..Len(pos) :
            i < j => /\ ~(~pri[i] /\ pri[j])
                     /\ (pri[i] = pri[j]) => pos[i] < pos[j]

\* A pair was discovered twice, and a priority candidate was discovered
\* after one that is not.
C16_Witness ==
  /\ WindowsDone
  /\ Len(kc.out.list) < Len(kc.found)
  /\ LET pos == FirstPositions
         pri == PriorityFlags
     IN \E i, j \in 1..Len(pos) : pri[i] /\ ~pri[j] /\ pos[j] < pos[i]

\* The raw-key forms of a run of bytes.
IsRawKeyOf(c, bytes) ==
  /\ c.keyPragma = "key"
  /\ c.keyExpr \in {BlobLiteral(ToHex(bytes)), StringX(ToHex(bytes)), sqlStringLiteral(RawColon(ToHex(bytes)))}
HasRawKey(list, bytes) == \E n \in 1..Len(list) : IsRawKeyOf(list[n], bytes)
HasHexkey(list, bytes) ==
  \E n \in 1..Len(list) : list[n].keyPragma = "hexkey" /\ list[n].keyExpr = sqlStringLiteral(ToHex(bytes))

\* C17: for every 64-byte blob read from a credential entry the returned
\* candidates include its first 32 bytes as a raw key, its last 32 bytes as
\* a raw key, and all 64 bytes as a hexkey.
C17_SixtyFourByteBlob ==
  WindowsDone =>
    \A i \in 1..NTargets :
      LET blob == readWindowsCredentialBlob(kc.in.store, i)
      IN blob # Absent /\ ByteLen(blob) = 64 =>
           /\ HasRawKey(kc.out.list, Subarray(blob, 0, 32))
           /\ HasRawKey(kc.out.list, Subarray(blob, 32, 64))
           /\ HasHexkey(kc.out.list, blob)


\* The probes of the stage whose child was spawned.
Spawned == {idx \in DOMAIN fl.runs : fl.runs[idx].st # "unborn"}
ProbeStageBegun == fl.phase \in {"probing", "over"}
QueryBegun == sq.phase \in {"running", "returned", "threw"}
QueryOver == sq.phase \in {"returned", "threw"}

\* C18 as stated: the engine of a probe or query is only ever run on the
\* temporary copy or plaintext, never on the original vault path.
C18_NeverOriginal ==
  /\ ProbeStageBegun => \A idx \in Spawned : fl.runs[idx].target = "tmp"
  /\ QueryBegun => \A n \in 1..Len(sq.targets) : sq.targets[n] = "tmp"

\* C18 amended: the engine is run on the temporary copy or plaintext when the
\* copy goes through, and on the original vault path when copying the vault or
\* one of its companions fails.
C18_OriginalOnlyWhenCopyFails ==
  /\ ProbeStageBegun =>
       \A idx \in Spawned :
         fl.runs[idx].target = IF fl.world.copyFails = "none" THEN "tmp" ELSE "orig"
  /\ QueryBegun =>
       \A n \in 1..Len(sq.targets) :
         sq.targets[n] = IF sq.world.copyFails = "none" THEN "tmp" ELSE "orig"

\* A query is over whose copy failed at the -wal companion.
C18_Witness ==
  /\ QueryOver
  /\ sq.world.copyFails = "-wal"
  /\ sq.targets # <<>>

C20_DecryptDirRemoved ==
  td.phase \in {"ready", "returned"} => \A n \in 1..Len(td.dirs) : td.dirs[n] = NoDir

\* ---- the loaders
LoaderDone == ld.phase = "done" /\ ld.loader \in Loaders

\* The failures a warning is promised for.
WarnedFailures == {"noVaultFile", "engine", "keys", "query", "dumpFailed"}

\* C21: loadRaycastTokens, loadRaycastPreferences and loadRaycastAuthData never
\* throw: whatever failure the call met (no vault file, no engine, no key, a
\* failed query, a failed backend dump), the caller has a map and a warning
\* was logged.
C21_MapAndWarning ==
  LoaderDone =>
    /\ ~ld.threw
    /\ ld.given[1] = "map"
    /\ (ld.met \cap WarnedFailures # {} => ld.logs # <<>>)

\* C26: every line the program prints is what redactSecrets makes of the text
\* that was to be printed, the loaders' warnings with the caught error and the
\* backend-dump failure message included.
C26_EveryLineRedacted ==
  ld.phase # "idle" =>
    \A i \in 1..Len(ld.logs) : ld.logs[i].line = redactSecrets(ld.logs[i].raw)

\* ---- rows and payloads
NormalizedRows == fn.phase = "done" /\ fn.name = "normalizeExtensionsRows"

\* The entry of key k, or null.
Entry(pairs, k) == IF KeyPos(pairs, k) > 0 THEN Some(pairs[KeyPos(pairs, k)][2]) ELSE Null

\* Row i has a name, and is the only row of that name.
NamedAlone(rows, i) ==
  /\ rows[i].name[1] = "str" /\ rows[i].name[2] # ""
  /\ \A j \in 1..Len(rows) : j # i => rows[j].name # rows[i].name

IsJsonText(v) == v[1] = "text" /\ v[2] = "json"

\* What the claim promises for the tokenSets text t, given the entry e.
TokenSetsAsPromised(t, e, emptyArrayToo) ==
  CASE IsJsonText(t) /\ t[3][1] = "obj" -> e = Some(<<t[3]>>)
    [] IsJsonText(t) /\ t[3][1] = "arr" /\ (emptyArrayToo \/ Len(t[3][2]) > 0) -> e = Some(t[3][2])
    [] IsJsonText(t) /\ t[3][1] = "arr" -> e = Null
    [] ~IsJsonText(t) -> e = Null
    [] OTHER -> TRUE

CountedPreference(e) ==
  /\ e[1] = "obj"
  /\ KeyPos(e[2], "name") > 0 /\ KeyPos(e[2], "value") > 0
  /\ e[2][KeyPos(e[2], "name")][2][1] = "str"
  /\ e[2][KeyPos(e[2], "name")][2][2] # ""

NameOf(e) == e[2][KeyPos(e[2], "name")][2][2]
ValueOf(e) == e[2][KeyPos(e[2], "value")][2]

\* The flat map the claim promises for the elements, against the entry e.
FlatMapAsPromised(elems, e) ==
  LET counted == {i \in 1..Len(elems) : CountedPreference(elems[i])}
      names == {NameOf(elems[i]) : i \in counted}
      last(k) == CHOOSE i \in counted :
                   /\ NameOf(elems[i]) = k
                   /\ \A j \in counted : NameOf(elems[j]) = k => j <= i
  IN  IF names = {} THEN e = Null
      ELSE /\ e # Null
           /\ Len(e[2]) = Cardinality(names)
           /\ \A k \in names : Entry(e[2], k) = Some(ValueOf(elems[last(k)]))

\* C23: normalizeExtensionsRows turns a preferences array into a flat map:
\* each element with a non-empty string name and a value of its own is there
\* as name -> value, the later of two of one name winning; every other element
\* is skipped; and when nothing is left the extension has no preference map.
C23_FlatPreferences ==
  NormalizedRows =>
    \A i \in 1..Len(fn.input) :
      LET t == fn.input[i].preferences
          e == Entry(fn.output.prefs, fn.input[i].name[2])
      IN  NamedAlone(fn.input, i) /\ t[1] = "text" =>
            IF IsJsonText(t) /\ t[3][1] = "arr" THEN FlatMapAsPromised(t[3][2], e)
            ELSE e = Null

\* Two elements of one name went in and the later one is in the map.
C23_Witness ==
  /\ NormalizedRows
  /\ fn.input = <<Row(JStr("ext"), Undefined,
                      TextOf(JArr(<<Preference(JStr("foo"), JStr("bar")),
                                    Preference(JStr("foo"), JNum(1))>>)))>>
  /\ fn.output.prefs = <<<<"ext", <<<<"foo", JNum(1)>>>>>>>>

\* What the function that ran makes of the rows: the token map and the
\* preference map (empty for the loop that does not fill it).
Applied(name, rows) ==
  CASE name = "normalizeExtensionsRows" -> normalizeExtensionsRows(rows)
    [] name = "loadRaycastTokens" -> [tokens |-> TokenRowsFrom(rows, 1, <<>>), prefs |-> <<>>]
    [] OTHER -> [tokens |-> <<>>, prefs |-> PrefRowsFrom(rows, 1, <<>>)]

RowsDone ==
  /\ fn.phase = "done"
  /\ fn.name \in {"normalizeExtensionsRows", "loadRaycastTokens", "loadRaycastPreferences"}

RowsOutput ==
  CASE fn.name = "normalizeExtensionsRows" -> fn.output
    [] fn.name = "loadRaycastTokens" -> [tokens |-> fn.output, prefs |-> <<>>]
    [] OTHER -> [tokens |-> <<>>, prefs |-> fn.output]

\* The key row i is filed under by the function that ran.
RowKey(row) ==
  CASE fn.name = "normalizeExtensionsRows" -> row.name[2]
    [] fn.name = "loadRaycastTokens" -> row.name
    [] OTHER -> ToPropertyKey(row.name)

\* Row i has a name and no other row has it.
AloneOfName(rows, i) ==
  /\ ~Falsy(rows[i].name)
  /\ fn.name = "normalizeExtensionsRows" => rows[i].name[1] = "str"
  /\ \A j \in 1..Len(rows) : j # i => rows[j].name # rows[i].name

\* Row i is malformed: no name, or a payload that does not parse.
Malformed(row) ==
  \/ Falsy(row.name)
  \/ row.name[1] # "str"
  \/ row.tokenSets[1] = "text" /\ ~IsJsonText(row.tokenSets)
  \/ row.preferences[1] = "text" /\ ~IsJsonText(row.preferences)

\* C24: a row without a name, or with a payload that does not parse, is left
\* out on its own: every other row of the list is in the returned maps with
\* the entry it has when it is the only row, and the list is gone through to
\* its end.
C24_MalformedRowAlone ==
  RowsDone =>
    \A i \in 1..Len(fn.input) :
      AloneOfName(fn.input, i) =>
        LET alone == Applied(fn.name, <<fn.input[i]>>)
            k == RowKey(fn.input[i])
        IN  /\ Entry(RowsOutput.tokens, k) = Entry(alone.tokens, k)
            /\ Entry(RowsOutput.prefs, k) = Entry(alone.prefs, k)

\* A malformed row came first and the row after it is in the map.
C24_Witness ==
  /\ RowsDone
  /\ Len(fn.input) = 2
  /\ Malformed(fn.input[1]) /\ ~Malformed(fn.input[2])
  /\ fn.input[1].tokenSets = BadJson
  /\ fn.input[2].tokenSets = TextOf(JArr(<<TokenSetOf("a"), TokenSetOf("b")>>))
  /\ Entry(RowsOutput.tokens, RowKey(fn.input[2])) = Some(<<TokenSetOf("a"), TokenSetOf("b")>>)

\* A fully parsed TokenSet: an object with a string accessToken.
IsTokenSet(v) ==
  /\ v[1] = "obj"
  /\ KeyPos(v[2], "accessToken") > 0
  /\ v[2][KeyPos(v[2], "accessToken")][2][1] = "str"

TokensReturned ==
  CASE fn.name \in {"normalizeExtensionsRows", "normalizeBackendDump",
                    "loadRaycastDataViaWindowsBackend"} -> fn.output.tokens
    [] fn.name = "loadRaycastTokens" -> fn.output
    [] OTHER -> <<>>

\* C25: every token set in a returned map is an object with a string
\* accessToken; a payload that is valid JSON but no token set and no array of
\* token sets (a number, a string, true, an array with such values or null in
\* it) is left out.
C25_OnlyTokenSets ==
  fn.phase = "done" =>
    \A i \in 1..Len(TokensReturned) :
      \A j \in 1..Len(TokensReturned[i][2]) : IsTokenSet(TokensReturned[i][2][j])

\* ---- the vault files of a directory
ListedDbFiles == fn.phase = "done" /\ fn.name = "listRaycastDbFiles"

\* The position of x in seq (x is in it).
PosIn(seq, x) == CHOOSE i \in 1..Len(seq) : seq[i] = x

IsPreferred(name) == \E i \in 1..Len(preferred) : preferred[i] = name

\* out holds exactly the database files of the listing, the preferred names
\* first and in their order, the others behind them in listing order.
RankedListing(listing, out) ==
  /\ {out[i] : i \in 1..Len(out)} =
       {listing[i] : i \in {j \in 1..Len(listing) : IsDbName(listing[j])}}
  /\ \A i, j \in 1..Len(out) : i # j => out[i] # out[j]
  /\ \A i, j \in 1..Len(out) :
       i < j =>
         \/ IsPreferred(out[i]) /\ ~IsPreferred(out[j])
         \/ /\ IsPreferred(out[i]) /\ IsPreferred(out[j])
            /\ PosIn(preferred, out[i]) < PosIn(preferred, out[j])
         \/ /\ ~IsPreferred(out[i]) /\ ~IsPreferred(out[j])
            /\ PosIn(listing, out[i]) < PosIn(listing, out[j])

\* C30 as stated: listRaycastDbFiles depends on the directory listing alone;
\* it returns exactly the entries ending in .db, .sqlite or .sqlite3 (and not
\* in -wal or -shm), main.db, settings_v2.db, settings.db and
\* raycast-enc.sqlite first and in that order, the others in listing order.
C30_ListingAlone ==
  ListedDbFiles /\ fn.input.entries # Null =>
    RankedListing(fn.input.entries[2], fn.output)

\* C30 amended: that holds off macOS; on macOS the list is the one path
\* raycast-enc.sqlite, whatever the directory holds.
C30_ListingAloneOffMac ==
  ListedDbFiles =>
    IF fn.input.platform = "darwin" THEN fn.output = <<(<<"raycast-enc", ".sqlite">>)>>
    ELSE IF fn.input.entries = Null THEN fn.output = <<>>
    ELSE RankedListing(fn.input.entries[2], fn.output)

\* A listing with another file before the preferred ones and a -wal file
\* came out ranked.
C30_Witness ==
  /\ ListedDbFiles
  /\ fn.input.platform = "win32"
  /\ fn.input.entries = Some(<<(<<"a", ".db">>), (<<"main.db", "-wal">>), (<<"main", ".db">>)>>)
  /\ fn.output = <<(<<"main", ".db">>), (<<"a", ".db">>)>>

\* ---- the cached backend versions
Pruned == fn.phase = "done" /\ fn.name = "ensureRaycastBackendCopy"

\* The version directories of a listing.
VersionDirs(entries) == {entries[i] : i \in {j \in 1..Len(entries) : entries[j].dir}}

\* The keepN of the claim: the number given, 2 when none is given, 1 at least.
KeepLimit(v) == IF v[1] = "num" THEN (IF v[2] < 1 THEN 1 ELSE v[2]) ELSE IF IsNaN(v) THEN 1 ELSE 2

Holders == {p \in Procs : lk.at[p] \in {"locked", "release"}}

\* C28: at any time at most one process is between a successful acquireLock
\* and its release, also when a holder's copy takes longer than the stale
\* threshold and when two waiters see the same stale lock file.
C28_OneHolder == lk.phase = "run" => Cardinality(Holders) <= 1

\* ---- the probe log
ProbeLogged == fn.phase = "done" /\ fn.name = "getWorkingOpenConfig"

\* C27: the probe log is written only with RAYBRIDGE_DEBUG_DB_OPEN=1, and two
\* runs with the same labels, counts, stages, file and outcomes write the same
\* log whatever their keys are.
C27_LogWithoutKeys ==
  ProbeLogged =>
    /\ ~fn.input.debug => fn.output.a = Null /\ fn.output.b = Null
    /\ fn.input.debug => fn.output.a # Null
    /\ fn.output.a = fn.output.b

\* Two runs with different keys, one of which opened the vault, wrote a log.
C27_Witness ==
  /\ ProbeLogged
  /\ fn.input.debug
  /\ fn.input.exprsA # fn.input.exprsB
  /\ Won(fn.input.first)
  /\ \E i \in 1..Len(fn.output.a[2]) : fn.output.a[2][i][1] = "OPEN OK"

\* C31: a session without requests for more than 30 minutes is in the end
\* closed and out of the session table, its server having been notified as
\* closed once and no more; and the idle cleanup takes no session that had a
\* request within the last 30 minutes.
Live(s) == web.phase = "up" /\ s \in DOMAIN web.sessions

IdleTooLong(s) == Live(s) /\ web.now - web.sessions[s].lastActivity > IDLE_TIMEOUT

ExpiredAndGone(s) ==
  /\ web.phase = "up"
  /\ s \notin DOMAIN web.sessions
  /\ web.closed[s] = 1
  /\ web.notified[s] = 1

CleanupSparesTheActive ==
  \A s \in SessionIds :
    (Live(s) /\ web'.phase = "up" /\ s \notin DOMAIN web'.sessions)
      => web.now - web.sessions[s].lastActivity > IDLE_TIMEOUT

C31_IdleSessionsExpire ==
  /\ \A s \in SessionIds : IdleTooLong(s) ~> ExpiredAndGone(s)
  /\ [][CleanupSparesTheActive]_vars
  /\ [](web.phase = "up" => \A s \in SessionIds : web.notified[s] <= 1)

C31_Witness ==
  /\ ExpiredAndGone(1)
  /\ Live(2)
  /\ web.now - web.sessions[2].lastActivity = IDLE_TIMEOUT

\* C32: a DELETE request that names a session of the table ends the session:
\* once the request is answered the session is out of the table, so that no
\* session of the table is one a DELETE request was made for.
C32_DeleteTerminates ==
  web.phase = "up" => \A s \in DOMAIN web.sessions : ~web.sessions[s].terminated

\* C33: when the first load of a context made a dump that succeeded, the
\* second load of the context is answered from the cache, and one backend
\* process was spawned for the two.
C33_OneDumpPerContext ==
  (ld.phase = "context" /\ Len(ld.calls) = 2 /\ ld.calls[1] = "dump")
    => (ld.calls[2] = "cached" /\ ld.spawned = 1)

\* C34: no failure of a probe, whatever its bucket, ends a stage or the search
\* early: every failed probe falls in one of the seven buckets, a stage that
\* is over without a winner has probed each of its tasks once, and with the
\* full-scan opt-in a search over a pair that opens the vault does not throw.
EveryFailureCounted ==
  /\ \A proc \in ProbeFailures : ProbeCategory(runSqlcipherQueryAsync(proc)) \in Buckets
  /\ \A b \in Buckets : \E proc \in ProbeFailures : ProbeCategory(runSqlcipherQueryAsync(proc)) = b

StageFullyProbed(c) ==
  /\ pool[c].tasks = StageTasks(stage[c])
  /\ \A t \in 1..Len(pool[c].tasks) : pool[c].probed[t] = 1

SomePairOpens ==
  \E i \in 1..Len(getInitCandidates) : \E k \in 1..Len(getKeyCandidates) :
     Working(getInitCandidates[i], k)

SearchEnded == pc[Searcher] \in {"returned", "threw"}

C35_SearchTerminates == (pc[Searcher] = "probing") ~> SearchEnded

C35_Witness ==
  /\ pc[Searcher] = "threw"
  /\ stage[Searcher] = 2
  /\ Len(pool[Searcher].tasks) > PROBE_CONCURRENCY
  /\ StageFullyProbed(Searcher)

\* C36: in loadRaycastAuthDataMacSqlcipher an engine run that exits non-zero
\* with a transient condition on stderr (locked, malformed image, missing
\* table) is followed by another attempt, up to three in all, after a wait of
\* 50 ms times the attempt number, and a later attempt that succeeds gives its
\* rows.
TransientExits == {ProcLocked, ProcMalformed, ProcNoTable}

MacLoaded == fn.phase = "done" /\ fn.name = "loadRaycastAuthDataMacSqlcipher"

C36_TransientRetried ==
  MacLoaded =>
    /\ fn.input[1] \in TransientExits => fn.output.attempts >= 2
    /\ (fn.input[1] \in TransientExits /\ fn.input[2] = ProcRows) =>
         /\ ~fn.output.threw
         /\ fn.output.rows = ParseRows(ProcRows.stdout)
         /\ fn.output.sleeps = <<BackoffUnitMs>>

\* C37: the lock file is only ever removed by its owner or as a stale lock:
\* the release step of a process removes the file that process created, and
\* the unlink of a waiter removes a file that is stale when it is removed,
\* never a fresh one created since the waiter looked.
ReleasesOwnLease(p) ==
  (lk.at[p] = "release" /\ lk'.at[p] = "returned" /\ lk.lockFile.held)
    => lk.lockFile.by = p

UnlinksStaleLock(p) ==
  (lk.at[p] = "unlink" /\ lk'.at[p] = "loop")
    => lk.now - lk.lockFile.mtimeMs > LOCK_STALE_MS

C37_OwnLeaseOnly ==
  [][lk.phase = "run" => \A p \in Procs : ReleasesOwnLease(p) /\ UnlinksStaleLock(p)]_vars

\* C38: whatever a tool execution receives from getTokens, getPreferenceValues
\* or environment.extensionName belongs to the extension of that tool, however
\* two executions interleave.
C38_OwnExtensionOnly ==
  shims.phase = "up" =>
    \A t \in Tools : \A i \in 1..Len(shims.received[t]) :
      shims.received[t][i].extension = ExtensionOf(t)

\* C39: every relevant file change is eventually followed by the start of a
\* reload, also when its debounce timer fires during an earlier reload, and
\* never are two reloads in progress together.
C39_EveryChangeReloaded ==
  /\ [](watcher.phase = "up" => watcher.reloads <= 1)
  /\ (watcher.phase = "up" /\ watcher.unserved) ~> (~watcher.unserved)

\* C40: after reloadServerContext the context holds the extensions of that
\* reload with their tool definitions and lookup, and the result is true
\* exactly when the tool definitions differ from those before, a change
\* inside an extension of the same name included.
Reloaded == fn.phase = "done" /\ fn.name = "reloadServerContext"

C40_ContextFollowsReload ==
  Reloaded =>
    /\ fn.output.ctx = Context(fn.input.found)
    /\ fn.output.returned <=> (Context(fn.input.before).tools # Context(fn.input.found).tools)

====
